---- MODULE Spec2Model ----
(***************************************************************************)
(* Verification model of the AudioDSP guitar-effects firmware:             *)
(*   - the generic ring buffer (ringbuffer.c),                             *)
(*   - the ping-pong scheduler of main.c and its DMA callbacks.            *)
(***************************************************************************)
EXTENDS Integers, Sequences, FiniteSets, TLC

(***************************************************************************)
(* Bounds of the model                                                     *)
(***************************************************************************)
\* width in bits of size_t in the model (the counters wrap at 2^SizeBits)
SizeBits == 5
\* largest capacity a caller asks ring_buffer_init for while puts/gets follow
MaxCapacity == 4
\* largest element size in bytes a caller asks for
MaxElemSize == 1
\* largest capacity tried when only ring_buffer_init is exercised
MaxInitCapacity == 17

\* stereo frames in one half of a transport buffer (64 in the firmware)
HalfFrames == 2
\* transfer notifications the DMA raises in one run of the model
MaxNotifications == 3
\* the sample rate Fs in samples per second (48000 in fx_lib.c)
Fs == 4
\* the delay buffer holds 2^DelayLineBits samples (1 << 16 in fx_lib.c)
DelayLineBits == 3
\* sample blocks a caller feeds to run_delay
MaxDelayBlocks == 2
\* steps the rotary encoder makes in a run
MaxTurns == 2
MaxMenuTurns == 4
\* movements of the encoder knob in a run in which it may be swept half its range
MaxSweeps == 3

\* values a byte of the model takes
Byte == {0, 1}

(***************************************************************************)
(* Program constants of ringbuffer.c                                       *)
(***************************************************************************)
RING_BUFFER_MAX == 1
SUCCESS == 0
FAILURE == -1

RECURSIVE Pow2(_)
Pow2(n) == IF n = 0 THEN 1 ELSE 2 * Pow2(n - 1)

\* size_t arithmetic: every result is reduced modulo 2^SizeBits
SizeMod == Pow2(SizeBits)
\* mutant: a difference that would borrow is clamped to 0
SizeSub_no_borrow(a, b) == IF a >= b THEN a - b ELSE 0
SizeSub(a, b) == (a - b + SizeMod) % SizeMod
SizeAdd(a, b) == (a + b) % SizeMod
SizeMul(a, b) == (a * b) % SizeMod

\* the C operator & on two unsigned values
RECURSIVE BitAnd(_, _)
BitAnd(a, b) ==
    IF a = 0 \/ b = 0 THEN 0
    ELSE (a % 2) * (b % 2) + 2 * BitAnd(a \div 2, b \div 2)

\* conversion of a size_t value to int (same width, two's complement)
SizeToInt(v) == IF v >= SizeMod \div 2 THEN v - SizeMod ELSE v

Zeros(n) == [i \in 1..n |-> 0]

(***************************************************************************)
(* State                                                                   *)
(***************************************************************************)
VARIABLES
    _rb,        \* static struct ring_buffer _rb[RING_BUFFER_MAX]
    index,      \* static int index of ring_buffer_init
    storage,    \* the caller's memory handed over in attr->buffer (bytes)
    rbd,        \* the caller's designator variable written by ring_buffer_init
    rb_call,    \* the last ring buffer call: name, designator, return value, data read
    init_arg,   \* the arguments of the last ring_buffer_init call of an init-only caller
    fifo,       \* history: the elements put and not yet got, oldest first
    since_clear, \* history: successful puts made in a row right after a clear, -1 otherwise
    callback_state, \* static volatile uint8_t callback_state of main.c
    mode,       \* static volatile uint8_t mode of main.c
    btn_pressed, \* static volatile uint8_t btn_pressed of main.c
    pc,         \* the statement of the control loop of main() that runs next
    p,          \* the enum ping_pong argument of the pass the control loop is in
    menu_btn,   \* the by-value parameter btn_pressed of the running display_menu call
    menu,       \* static menu_t menu of display_menu
    TIM2_CNT,   \* the encoder counter register TIM2->CNT
    fx_update,  \* the last effect update call issued by confirm_value
    rx_buffer,  \* uint32_t rx_buffer[DMA_BUFFER_SIZE]
    tx_buffer,  \* uint32_t tx_buffer[DMA_BUFFER_SIZE]
    left_in,    \* float32_t left_in[PING_PONG_BUFFER_SIZE]
    left_out,   \* float32_t left_out[PING_PONG_BUFFER_SIZE]
    fx_ran,     \* the effect run functions the last run_fx call invoked, in order
    dma_next,   \* the notification the circular DMA raises next
    notified,   \* history: the notifications raised so far, in order
    processed,  \* history: the halves the control loop has finished a pass over, in order
    overrun,    \* history: a notification was raised while callback_state was not NONE
    delay_handle,     \* delay_handle_t delay_handle of main.c
    overdrive_handle, \* overdrive_handle_t overdrive_handle of main.c
    fuzz_handle,      \* fuzz_handle_t fuzz_handle of main.c
    tremolo_handle,   \* tremolo_handle_t tremolo_handle of main.c
    ring_mod_handle,  \* ring_mod_handle_t ring_mod_handle of main.c
    fx_call,    \* the last call into fx_lib.c that returned: name, arguments, return value
    fx_pc,      \* the statement of delay_init or run_delay that runs next, "idle" outside them
    fx_i,       \* the loop variable i of the running delay_init or run_delay
    fx_n,       \* delay_in_samples of the running delay_init
    caller_fx,  \* the effect whose functions a caller of fx_lib.c exercises
    delay_log,  \* history: per sample run_delay has finished since the last delay_init,
                \* the source sample, the value put (current) and the value got (delayed)
    delay_rb_failed, \* history: a ring buffer call of delay_init or run_delay returned FAILURE
    max_z_sign, \* the sign of max_z when run_fuzz last divided by it, -1 before the first run
    turns       \* history: the encoder steps made so far

rb_vars == <<_rb, index, storage, rbd, rb_call, init_arg, fifo, since_clear>>

sched_vars == <<callback_state, mode, btn_pressed, pc, p, menu_btn, menu, TIM2_CNT,
                fx_update, rx_buffer, tx_buffer, left_in, left_out, fx_ran,
                dma_next, notified, processed, overrun>>

handle_vars == <<delay_handle, overdrive_handle, fuzz_handle, tremolo_handle, ring_mod_handle>>

fxlib_vars == <<fx_call, fx_pc, fx_i, fx_n, caller_fx, delay_log, delay_rb_failed,
               max_z_sign>>

fx_vars == <<handle_vars, fxlib_vars>>

vars == <<rb_vars, sched_vars, fx_vars, turns>>

\* a zero-initialised struct ring_buffer
ring_buffer == [element_size |-> 0, max_elements |-> 0, buf |-> "NULL", head |-> 0, tail |-> 0]

\* designator value of a caller that has not run ring_buffer_init
NoDesignator == RING_BUFFER_MAX

InitArg(rbdNull, attrNull, bufNull, element_size, max_elements) ==
    [rbdNull |-> rbdNull, attrNull |-> attrNull, bufNull |-> bufNull,
     element_size |-> element_size, max_elements |-> max_elements]

Call(name, d, ret, out) == [name |-> name, rbd |-> d, ret |-> ret, out |-> out]

InitRB ==
    /\ _rb = [i \in 0..(RING_BUFFER_MAX - 1) |-> ring_buffer]
    /\ index = 0
    /\ storage = <<>>
    /\ rbd = NoDesignator
    /\ rb_call = Call("none", NoDesignator, SUCCESS, <<>>)
    /\ init_arg = InitArg(TRUE, TRUE, TRUE, 0, 0)
    /\ fifo = <<>>
    /\ since_clear = -1

(***************************************************************************)
(* ringbuffer.c                                                            *)
(***************************************************************************)
\* the capacity test of ring_buffer_init: ((max_elements - 1) & max_elements) == 0
CapacityOk(max_elements) == BitAnd(SizeSub(max_elements, 1), max_elements) = 0

\* mutant: a call that fails after the slot test still uses up the slot
ring_buffer_init_claims_slot(rbdNull, attrNull, bufNull, element_size, max_elements) ==
    IF /\ index < RING_BUFFER_MAX
       /\ ~rbdNull
       /\ ~attrNull
       /\ ~bufNull
       /\ element_size > 0
       /\ CapacityOk(max_elements)
    THEN /\ _rb' = [_rb EXCEPT ![index] =
                        [element_size |-> element_size,
                         max_elements |-> max_elements,
                         buf |-> "storage",
                         head |-> 0,
                         tail |-> 0]]
         /\ storage' = Zeros(max_elements * element_size)
         /\ rbd' = index
         /\ index' = index + 1
         /\ rb_call' = Call("init", index, SUCCESS, <<>>)
         /\ fifo' = <<>>
         /\ since_clear' = -1
    ELSE /\ rb_call' = Call("init", rbd, FAILURE, <<>>)
         /\ since_clear' = -1
         /\ index' = IF index < RING_BUFFER_MAX THEN index + 1 ELSE index
         /\ UNCHANGED <<_rb, storage, rbd, fifo>>

\* int ring_buffer_init(rb_designator_t* rbd, rb_handle_t* attr)
\* rbdNull, attrNull, bufNull: the pointer is NULL
ring_buffer_init(rbdNull, attrNull, bufNull, element_size, max_elements) ==
    IF /\ index < RING_BUFFER_MAX
       /\ ~rbdNull
       /\ ~attrNull
       /\ ~bufNull
       /\ element_size > 0
       /\ CapacityOk(max_elements)
    THEN /\ _rb' = [_rb EXCEPT ![index] =
                        [element_size |-> element_size,
                         max_elements |-> max_elements,
                         buf |-> "storage",
                         head |-> 0,
                         tail |-> 0]]
         /\ storage' = Zeros(max_elements * element_size)
         /\ rbd' = index
         /\ index' = index + 1
         /\ rb_call' = Call("init", index, SUCCESS, <<>>)
         /\ fifo' = <<>>
         /\ since_clear' = -1
    ELSE /\ rb_call' = Call("init", rbd, FAILURE, <<>>)
         /\ since_clear' = -1
         /\ UNCHANGED <<_rb, index, storage, rbd, fifo>>

\* mutant: the full test is off by one and never fires at max_elements
_ring_buffer_full_late(rb) == SizeSub(rb.head, rb.tail) > rb.max_elements

_ring_buffer_full(rb) == SizeSub(rb.head, rb.tail) = rb.max_elements

\* mutant: the empty test looks at head alone
_ring_buffer_empty_head(rb) == rb.head = 0

_ring_buffer_empty(rb) == SizeSub(rb.head, rb.tail) = 0

\* byte offset of the slot a counter value points at
SlotOffset(rb, counter) ==
    SizeMul(BitAnd(counter, SizeSub(rb.max_elements, 1)), rb.element_size)

\* memcpy(&buf[offset], data, n)
MemWrite(mem, offset, data, n) ==
    [i \in DOMAIN mem |->
        IF i > offset /\ i <= offset + n THEN data[i - offset] ELSE mem[i]]

\* n bytes of mem starting at offset
MemRead(mem, offset, n) == [i \in 1..n |-> mem[offset + i]]

\* int ring_buffer_count(rb_designator_t rbd)
ring_buffer_count(d) ==
    /\ rb_call' = Call("count", d, SizeToInt(SizeSub(_rb[d].head, _rb[d].tail)), <<>>)
    /\ since_clear' = -1
    /\ UNCHANGED <<_rb, index, storage, rbd, fifo>>

\* mutant: the element is stored without the full test
ring_buffer_put_unchecked(d, data) ==
    IF d < RING_BUFFER_MAX /\ _rb[d].element_size > 0
    THEN LET offset == SlotOffset(_rb[d], _rb[d].head)
         IN  /\ storage' = MemWrite(storage, offset, data, _rb[d].element_size)
             /\ _rb' = [_rb EXCEPT ![d].head = SizeAdd(@, 1)]
             /\ rb_call' = Call("put", d, SUCCESS, <<>>)
             /\ fifo' = Append(fifo, data)
             /\ since_clear' = IF since_clear >= 0 THEN since_clear + 1 ELSE -1
             /\ UNCHANGED <<index, rbd>>
    ELSE /\ rb_call' = Call("put", d, FAILURE, <<>>)
         /\ since_clear' = -1
         /\ UNCHANGED <<_rb, index, storage, rbd, fifo>>

\* int ring_buffer_put(rb_designator_t rbd, const void* data)
ring_buffer_put(d, data) ==
    IF d < RING_BUFFER_MAX /\ ~_ring_buffer_full(_rb[d])
    THEN LET offset == SlotOffset(_rb[d], _rb[d].head)
         IN  /\ storage' = MemWrite(storage, offset, data, _rb[d].element_size)
             /\ _rb' = [_rb EXCEPT ![d].head = SizeAdd(@, 1)]
             /\ rb_call' = Call("put", d, SUCCESS, <<>>)
             /\ fifo' = Append(fifo, data)
             /\ since_clear' = IF since_clear >= 0 THEN since_clear + 1 ELSE -1
             /\ UNCHANGED <<index, rbd>>
    ELSE /\ rb_call' = Call("put", d, FAILURE, <<>>)
         /\ since_clear' = -1
         /\ UNCHANGED <<_rb, index, storage, rbd, fifo>>

\* mutant: the element is read at the head end (newest first)
ring_buffer_get_newest(d) ==
    IF d < RING_BUFFER_MAX /\ ~_ring_buffer_empty(_rb[d])
    THEN LET offset == SlotOffset(_rb[d], SizeSub(_rb[d].head, 1))
         IN  /\ rb_call' = Call("get", d, SUCCESS,
                                MemRead(storage, offset, _rb[d].element_size))
             /\ _rb' = [_rb EXCEPT ![d].tail = SizeAdd(@, 1)]
             /\ fifo' = IF fifo = <<>> THEN <<>> ELSE Tail(fifo)
             /\ since_clear' = -1
             /\ UNCHANGED <<index, storage, rbd>>
    ELSE /\ rb_call' = Call("get", d, FAILURE, <<>>)
         /\ since_clear' = -1
         /\ UNCHANGED <<_rb, index, storage, rbd, fifo>>

\* int ring_buffer_get(rb_designator_t rbd, void* data)
ring_buffer_get(d) ==
    IF d < RING_BUFFER_MAX /\ ~_ring_buffer_empty(_rb[d])
    THEN LET offset == SlotOffset(_rb[d], _rb[d].tail)
         IN  /\ rb_call' = Call("get", d, SUCCESS,
                                MemRead(storage, offset, _rb[d].element_size))
             /\ _rb' = [_rb EXCEPT ![d].tail = SizeAdd(@, 1)]
             /\ fifo' = IF fifo = <<>> THEN <<>> ELSE Tail(fifo)
             /\ since_clear' = -1
             /\ UNCHANGED <<index, storage, rbd>>
    ELSE /\ rb_call' = Call("get", d, FAILURE, <<>>)
         /\ since_clear' = -1
         /\ UNCHANGED <<_rb, index, storage, rbd, fifo>>

\* mutant: the storage is zeroed and head reset, tail is left as it was
ring_buffer_clear_head_only(d) ==
    /\ storage' = MemWrite(storage, 0,
                           Zeros(SizeMul(_rb[d].max_elements, _rb[d].element_size)),
                           SizeMul(_rb[d].max_elements, _rb[d].element_size))
    /\ _rb' = [_rb EXCEPT ![d].head = 0]
    /\ rb_call' = Call("clear", d, SUCCESS, <<>>)
    /\ fifo' = <<>>
    /\ since_clear' = 0
    /\ UNCHANGED <<index, rbd>>

\* void ring_buffer_clear(rb_designator_t rbd)
ring_buffer_clear(d) ==
    /\ storage' = MemWrite(storage, 0,
                           Zeros(SizeMul(_rb[d].max_elements, _rb[d].element_size)),
                           SizeMul(_rb[d].max_elements, _rb[d].element_size))
    /\ _rb' = [_rb EXCEPT ![d].head = 0, ![d].tail = 0]
    /\ rb_call' = Call("clear", d, SUCCESS, <<>>)
    /\ fifo' = <<>>
    /\ since_clear' = 0
    /\ UNCHANGED <<index, rbd>>

(***************************************************************************)
(* A caller of the ring buffer                                             *)
(***************************************************************************)
\* the element values a caller puts into a buffer of the given element size
Elements(element_size) == [1..element_size -> Byte]

\* the designators a caller passes: the registered ones and one that is out of range
Designators == 0..RING_BUFFER_MAX

\* the argument combinations of a ring_buffer_init call: every element size and
\* capacity up to maxCap with valid pointers, and each pointer NULL in turn
InitArgs(maxCap) ==
    {InitArg(FALSE, FALSE, FALSE, e, c) : e \in 0..MaxElemSize, c \in 0..maxCap}
    \cup {InitArg(TRUE, FALSE, FALSE, 1, 1),
          InitArg(FALSE, TRUE, FALSE, 1, 1),
          InitArg(FALSE, FALSE, TRUE, 1, 1)}

CallInit ==
    \E a \in InitArgs(MaxCapacity) :
        /\ ring_buffer_init(a.rbdNull, a.attrNull, a.bufNull, a.element_size, a.max_elements)
        /\ UNCHANGED <<init_arg, sched_vars, fx_vars, turns>>

CallPut ==
    \E d \in Designators :
        \E data \in Elements(IF d < RING_BUFFER_MAX THEN _rb[d].element_size ELSE 0) :
            ring_buffer_put(d, data) /\ UNCHANGED <<init_arg, sched_vars, fx_vars, turns>>

CallGet == \E d \in Designators : ring_buffer_get(d) /\ UNCHANGED <<init_arg, sched_vars, fx_vars, turns>>

CallCount ==
    \E d \in 0..(RING_BUFFER_MAX - 1) : ring_buffer_count(d) /\ UNCHANGED <<init_arg, sched_vars, fx_vars, turns>>

CallClear ==
    \E d \in 0..(RING_BUFFER_MAX - 1) : ring_buffer_clear(d) /\ UNCHANGED <<init_arg, sched_vars, fx_vars, turns>>

NextRB == CallInit \/ CallPut \/ CallGet \/ CallCount \/ CallClear

\* a caller that only registers buffers, with capacities up to MaxInitCapacity
CallInitOnly ==
    \E a \in InitArgs(MaxInitCapacity) :
        /\ ring_buffer_init(a.rbdNull, a.attrNull, a.bufNull, a.element_size, a.max_elements)
        /\ init_arg' = a
        /\ UNCHANGED <<sched_vars, fx_vars, turns>>

NextInit == CallInitOnly

(***************************************************************************)
(* Program constants of main.c, fx_lib.h, user_interface.[ch], timer.c     *)
(***************************************************************************)
\* enum callback_state
NONE == 0
HALFCPLT == 1
CPLT == 2

\* enum ping_pong
PING == 0
PONG == 1

\* enum fx_designator
FXNONE == 0
FXDELAY == 1
FXOVERDRIVE == 2
FXFUZZ == 3
FXTREMOLO == 4
FXRINGMOD == 5
FXFILTER == 6

\* enum menu_levels
MENU_PT == 0
MENU_DELAY == 1
MENU_OD == 2
MENU_FUZZ == 3
MENU_TREM == 4
MENU_RM == 5

\* delay_parameter, fuzz_parameter, modulation_parameter, modulator_type
DELAY == 0
GAIN == 0
MIX == 1
SINE == 0
TRIANGLE == 1
SQUARE == 2
NO_CHANGE == 3

MAX_DELAY_TIME == 500
MAX_ITEM_SIZE == 16
MAX_ITEM_COUNT == 7
SUBMENU_COUNT == 7
\* htim2.Init.Period: TIM2->CNT counts 0..TIM2_PERIOD
TIM2_PERIOD == 100
\* uint8_t arithmetic wraps at 2^8
Uint8Mod == 256

\* buffer sizes of defines_and_constants.h
SAMPLES == 2 * HalfFrames
DMA_BUFFER_SIZE == SAMPLES * 2
PING_PONG_BUFFER_SIZE == SAMPLES \div 2

(***************************************************************************)
(* Initial state of main.c and user_interface.c at the entry of while (1)  *)
(***************************************************************************)
NoUpdate == [fn |-> "none", pm |-> 0, type |-> NO_CHANGE, milli |-> 0]

InitSched ==
    /\ callback_state = NONE
    /\ mode = FXNONE
    /\ btn_pressed = 0
    /\ pc = "switch"
    /\ p = PING
    /\ menu_btn = 0
    /\ menu = [cnt |-> 0, past_cnt |-> 0, menu_depth |-> 0, item_selected |-> 0,
               sub_menu_selected |-> 0, show_values |-> 0]
    /\ TIM2_CNT = 0
    /\ fx_update = NoUpdate
    /\ rx_buffer = [j \in 0..(DMA_BUFFER_SIZE - 1) |-> j + 1]
    /\ tx_buffer = [j \in 0..(DMA_BUFFER_SIZE - 1) |-> 0]
    /\ left_in = [i \in 0..(PING_PONG_BUFFER_SIZE - 1) |-> 0]
    /\ left_out = [i \in 0..(PING_PONG_BUFFER_SIZE - 1) |-> 0]
    /\ fx_ran = <<>>
    /\ dma_next = HALFCPLT
    /\ notified = <<>>
    /\ processed = <<>>
    /\ overrun = FALSE

(***************************************************************************)
(* fx_lib.[ch]: effect handles and their init and update functions.        *)
(* float32_t parameters are held in thousandths: 0.4f is 400, 18 is 18000. *)
(***************************************************************************)
\* delay_parameter and modulation_parameter
FEEDBACK == 1
BLEND == 2
RATE == 0
DEPTH == 1

\* sizeof(delay_buffer[0]), a float32_t
DelayElemSize == 4

\* the handles as the zero-initialised globals of main.c
NoDelay == [delay_ms |-> 0, blend |-> 0, feedback |-> 0,
            src |-> "NULL", dst |-> "NULL", delay_rb |-> "NULL"]
NoOverdrive == [threshold |-> 0, src |-> "NULL", dst |-> "NULL"]
NoFuzz == [gain |-> 0, mix |-> 0, src |-> "NULL", dst |-> "NULL"]
NoTremolo == [rate |-> 0, depth |-> 0, time |-> 0, src |-> "NULL", dst |-> "NULL"]
NoRingMod == [rate |-> 0, blend |-> 0, type |-> SINE, time |-> 0,
              src |-> "NULL", dst |-> "NULL"]

\* a call into fx_lib.c that has returned
FxCall(name, args, ret) == [name |-> name, args |-> args, ret |-> ret]

\* the result of a function that returns a code and may write the handle
FxResult(ret, h) == [ret |-> ret, handle |-> h]

\* the argument checks at the head of delay_init: the code they return, 0 when they pass
delay_init_checks(in_buffer, out_buffer, delay_ms, blend, feedback) ==
    IF in_buffer = "NULL" \/ out_buffer = "NULL" THEN 255
    ELSE IF \/ blend <= 0
            \/ blend >= 1000
            \/ feedback <= 0
            \/ feedback >= 990
            \/ delay_ms > MAX_DELAY_TIME * 1000
         THEN 254
         ELSE 0

\* the handle->... assignments of delay_init
delay_init_commit(h, in_buffer, out_buffer, delay_ms, blend, feedback) ==
    [h EXCEPT !.src = in_buffer, !.dst = out_buffer, !.delay_ms = delay_ms,
              !.blend = blend, !.feedback = feedback, !.delay_rb = "_delay_rb"]

\* mutant: a new delay time also overwrites the blend
delay_update_time_sets_blend(h, pm, value) ==
    CASE pm = DELAY ->
            IF value > MAX_DELAY_TIME * 1000
            THEN FxResult(255, h)
            ELSE FxResult(0, [h EXCEPT !.delay_ms = value, !.blend = 0])
      [] pm = FEEDBACK ->
            IF value < 0 \/ value > 1000
            THEN FxResult(255, h)
            ELSE FxResult(0, [h EXCEPT !.feedback = value, !.blend = value])
      [] pm = BLEND ->
            IF value < 0 \/ value > 1000
            THEN FxResult(255, h)
            ELSE FxResult(0, [h EXCEPT !.blend = value])
      [] OTHER -> FxResult(0, h)

\* uint8_t delay_update(delay_handle_t *handle, delay_parameter pm, float32_t value)
\* case FEEDBACK has no break and runs on into case BLEND
delay_update(h, pm, value) ==
    CASE pm = DELAY ->
            IF value > MAX_DELAY_TIME * 1000
            THEN FxResult(255, h)
            ELSE FxResult(0, [h EXCEPT !.delay_ms = value])
      [] pm = FEEDBACK ->
            IF value < 0 \/ value > 1000
            THEN FxResult(255, h)
            ELSE FxResult(0, [h EXCEPT !.feedback = value, !.blend = value])
      [] pm = BLEND ->
            IF value < 0 \/ value > 1000
            THEN FxResult(255, h)
            ELSE FxResult(0, [h EXCEPT !.blend = value])
      [] OTHER -> FxResult(0, h)

\* uint8_t overdrive_init(handle, in_buffer, out_buffer, threshold)
overdrive_init(h, in_buffer, out_buffer, threshold) ==
    IF in_buffer = "NULL" \/ out_buffer = "NULL" THEN FxResult(255, h)
    ELSE IF threshold <= 0 \/ threshold > 400 THEN FxResult(254, h)
    ELSE FxResult(0, [h EXCEPT !.src = in_buffer, !.dst = out_buffer,
                               !.threshold = threshold])

\* mutant: the upper limit of the threshold is not tested
overdrive_update_no_upper(h, threshold) ==
    IF threshold <= 0
    THEN FxResult(255, h)
    ELSE FxResult(0, [h EXCEPT !.threshold = threshold])

\* uint8_t overdrive_update(overdrive_handle_t *handle, float32_t threshold)
overdrive_update(h, threshold) ==
    IF threshold <= 0 \/ threshold > 400
    THEN FxResult(255, h)
    ELSE FxResult(0, [h EXCEPT !.threshold = threshold])

\* uint8_t fuzz_init(handle, in_buffer, out_buffer, gain, mix): handle->mix = gain
fuzz_init(h, in_buffer, out_buffer, gain, mix) ==
    IF in_buffer = "NULL" \/ out_buffer = "NULL" THEN FxResult(255, h)
    ELSE IF gain < 0 \/ gain > 18000 \/ mix < 0 \/ mix >= 1000 THEN FxResult(254, h)
    ELSE FxResult(0, [h EXCEPT !.src = in_buffer, !.dst = out_buffer,
                               !.gain = gain, !.mix = gain])

\* uint8_t fuzz_update(fuzz_handle_t *handle, fuzz_parameter pm, float32_t value)
fuzz_update(h, pm, value) ==
    CASE pm = GAIN ->
            IF value < 0 \/ value > 18000
            THEN FxResult(255, h)
            ELSE FxResult(0, [h EXCEPT !.gain = value])
      [] pm = MIX ->
            IF value < 0 \/ value >= 1000
            THEN FxResult(255, h)
            ELSE FxResult(0, [h EXCEPT !.mix = value])
      [] OTHER -> FxResult(0, h)

\* uint8_t tremolo_init(handle, in_buffer, out_buffer, rate, depth)
tremolo_init(h, in_buffer, out_buffer, rate, depth) ==
    IF in_buffer = "NULL" \/ out_buffer = "NULL" THEN FxResult(255, h)
    ELSE IF rate < 0 \/ rate > 1000 \/ depth < 0 \/ depth > 1000 THEN FxResult(254, h)
    ELSE FxResult(0, [h EXCEPT !.src = in_buffer, !.dst = out_buffer,
                               !.rate = rate, !.depth = depth, !.time = 0])

\* uint8_t tremolo_update(tremolo_handle_t *handle, modulation_parameter pm, float32_t value)
tremolo_update(h, pm, value) ==
    CASE pm = RATE ->
            IF value < 0 \/ value > 1000
            THEN FxResult(255, h)
            ELSE FxResult(0, [h EXCEPT !.rate = value])
      [] pm = DEPTH ->
            IF value < 0 \/ value > 1000
            THEN FxResult(254, h)
            ELSE FxResult(0, [h EXCEPT !.depth = value])
      [] OTHER -> FxResult(0, h)

\* uint8_t ring_mod_init(handle, in_buffer, out_buffer, rate, blend, type)
\* the range test reads (rate >= 0) || (rate <= 1) || (blend < 0) || (blend > 0.99)
ring_mod_init(h, in_buffer, out_buffer, rate, blend, type) ==
    IF in_buffer = "NULL" \/ out_buffer = "NULL" THEN FxResult(255, h)
    ELSE IF rate >= 0 \/ rate <= 1000 \/ blend < 0 \/ blend > 990 THEN FxResult(254, h)
    ELSE FxResult(0, [h EXCEPT !.src = in_buffer, !.dst = out_buffer, !.rate = rate,
                               !.blend = blend, !.type = type, !.time = 0])

\* uint8_t ring_mod_update(handle, modulation_parameter pm, modulator_type type, value)
\* a range error returns before the type is looked at
ring_mod_update(h, pm, type, value) ==
    LET typed(g) == IF type # NO_CHANGE THEN [g EXCEPT !.type = type] ELSE g
    IN  CASE pm = RATE ->
                IF value < 0 \/ value > 1000
                THEN FxResult(255, h)
                ELSE FxResult(0, typed([h EXCEPT !.rate = value]))
          [] pm = DEPTH ->
                IF value < 0 \/ value > 1000
                THEN FxResult(254, h)
                ELSE FxResult(0, typed([h EXCEPT !.blend = value]))
          [] OTHER -> FxResult(0, typed(h))

\* the globals of main.c and the statics of fx_lib.c before any call
InitFxLib ==
    /\ delay_handle = NoDelay
    /\ overdrive_handle = NoOverdrive
    /\ fuzz_handle = NoFuzz
    /\ tremolo_handle = NoTremolo
    /\ ring_mod_handle = NoRingMod
    /\ fx_call = FxCall("none", <<>>, 0)
    /\ fx_pc = "idle"
    /\ fx_i = 0
    /\ fx_n = 0
    /\ delay_log = <<>>
    /\ delay_rb_failed = FALSE
    /\ max_z_sign = -1

Init == InitRB /\ InitSched /\ InitFxLib /\ caller_fx = FXNONE /\ turns = 0

SpecRB == Init /\ [][NextRB]_vars

SpecInit == Init /\ [][NextInit]_vars

(***************************************************************************)
(* user_interface.c                                                        *)
(***************************************************************************)
\* an effect update call with the value given in thousandths
Update(fn, pm, type, milli) == [fn |-> fn, pm |-> pm, type |-> type, milli |-> milli]

\* void confirm_value(menu_t* menu): the update call it issues, NoUpdate-like
\* records being left as they are when no case of the switch matches
confirm_value(m, prev) ==
    CASE m.sub_menu_selected = MENU_DELAY ->
            IF m.item_selected = 1
            THEN Update("delay_update", DELAY, NO_CHANGE, MAX_DELAY_TIME * m.cnt * 10)
            ELSE Update("delay_update", m.item_selected - 1, NO_CHANGE, m.cnt * 10)
      [] m.sub_menu_selected = MENU_OD ->
            Update("overdrive_update", 0, NO_CHANGE, 4 * m.cnt)
      [] m.sub_menu_selected = MENU_FUZZ ->
            IF m.item_selected = 1
            THEN Update("fuzz_update", GAIN, NO_CHANGE, 18 * m.cnt * 10)
            ELSE Update("fuzz_update", MIX, NO_CHANGE, m.cnt * 10)
      [] m.sub_menu_selected = MENU_TREM ->
            Update("tremolo_update", m.item_selected - 1, NO_CHANGE, m.cnt * 10)
      [] m.sub_menu_selected = MENU_RM ->
            IF m.item_selected # 3
            THEN Update("ring_mod_update", m.item_selected - 1, NO_CHANGE, m.cnt * 10)
            ELSE IF m.cnt < 33
                 THEN Update("ring_mod_update", m.item_selected - 1, SINE, 255000)
                 ELSE IF m.cnt < 66
                      THEN Update("ring_mod_update", m.item_selected - 1, TRIANGLE, 255000)
                      ELSE Update("ring_mod_update", m.item_selected - 1, SQUARE, 255000)
      [] OTHER -> prev

\* mutant: the press at the top level does not record the highlighted item
MenuSelect_keeps_category(m) ==
    [m EXCEPT !.menu_depth = (m.menu_depth + 1) % Uint8Mod]

\* case 0 of the switch: menu.sub_menu_selected = menu.item_selected; menu.menu_depth++;
MenuSelect(m) ==
    [m EXCEPT !.sub_menu_selected = m.item_selected,
              !.menu_depth = (m.menu_depth + 1) % Uint8Mod]

\* mutant: "Start" commits the designator after the selected one
StartMode_next(m) == (m.sub_menu_selected + 1) % Uint8Mod

\* *mode = menu.sub_menu_selected;
StartMode(m) == m.sub_menu_selected

\* mutant: the value display stays off when a parameter is entered
MenuEdit_hides_value(m) ==
    [m EXCEPT !.menu_depth = (m.menu_depth + 1) % Uint8Mod]

\* menu.show_values = 1; menu.menu_depth++;
MenuEdit(m) ==
    [m EXCEPT !.show_values = 1,
              !.menu_depth = (m.menu_depth + 1) % Uint8Mod]

\* the if (btn_pressed) block of display_menu: the menu, TIM2->CNT, *mode and
\* the update call after it
MenuPress(m, tim, md, upd) ==
    CASE m.menu_depth = 0 ->
            [menu |-> MenuSelect(m), tim |-> tim, mode |-> md, upd |-> upd]
      [] m.menu_depth = 1 ->
            \* size = ARRAY_SIZE(menus[sub_menu_selected][item_selected]) = MAX_ITEM_SIZE
            IF m.item_selected = MAX_ITEM_SIZE - 1
            THEN [menu |-> [m EXCEPT !.menu_depth = (m.menu_depth - 1) % Uint8Mod,
                                     !.item_selected = 0],
                  tim |-> 0, mode |-> md, upd |-> upd]
            ELSE IF m.item_selected = 0
                 THEN [menu |-> m, tim |-> tim, mode |-> StartMode(m), upd |-> upd]
                 ELSE [menu |-> MenuEdit(m), tim |-> 50, mode |-> md, upd |-> upd]
      [] m.menu_depth = 2 ->
            [menu |-> [m EXCEPT !.show_values = 0],
             tim |-> tim, mode |-> md, upd |-> confirm_value(m, upd)]
      [] OTHER ->
            [menu |-> [m EXCEPT !.menu_depth = (m.menu_depth - 1) % Uint8Mod],
             tim |-> tim, mode |-> md, upd |-> upd]

\* item_selected = (change > 0) ? item_selected++ : item_selected--;
\* the object is modified twice without a sequence point: a build stores either
\* the old value (the assignment lands last) or the stepped one
RotateOutcomes(m) ==
    LET change == m.cnt - m.past_cnt
        stepped == IF change > 0
                   THEN (m.item_selected + 1) % Uint8Mod
                   ELSE (m.item_selected - 1) % Uint8Mod
    IN  {m.item_selected % MAX_ITEM_COUNT, stepped % MAX_ITEM_COUNT}

\* the if (menu.cnt != menu.past_cnt) block of display_menu and the final
\* menu.past_cnt = menu.cnt, for one outcome of the item assignment
MenuRotate(m, item) ==
    [m EXCEPT !.item_selected =
                  IF m.cnt # m.past_cnt /\ m.show_values = 0 THEN item ELSE @,
              !.past_cnt = m.cnt]

\* void display_menu(uint8_t btn_pressed, uint8_t* mode), called by main()
display_menu ==
    /\ pc = "display_menu"
    /\ LET m0 == [menu EXCEPT !.cnt = TIM2_CNT]
           r == IF menu_btn # 0
                THEN MenuPress(m0, TIM2_CNT, mode, fx_update)
                ELSE [menu |-> m0, tim |-> TIM2_CNT, mode |-> mode, upd |-> fx_update]
           u == IF menu_btn # 0 /\ m0.menu_depth = 2
                THEN confirm_value(m0, NoUpdate)
                ELSE NoUpdate
       IN  /\ \E item \in RotateOutcomes(r.menu) : menu' = MenuRotate(r.menu, item)
           /\ TIM2_CNT' = r.tim
           /\ mode' = r.mode
           /\ fx_update' = r.upd
           /\ delay_handle' = IF u.fn = "delay_update"
                               THEN delay_update(delay_handle, u.pm, u.milli).handle
                               ELSE delay_handle
           /\ overdrive_handle' = IF u.fn = "overdrive_update"
                                   THEN overdrive_update(overdrive_handle, u.milli).handle
                                   ELSE overdrive_handle
           /\ fuzz_handle' = IF u.fn = "fuzz_update"
                              THEN fuzz_update(fuzz_handle, u.pm, u.milli).handle
                              ELSE fuzz_handle
           /\ tremolo_handle' = IF u.fn = "tremolo_update"
                                 THEN tremolo_update(tremolo_handle, u.pm, u.milli).handle
                                 ELSE tremolo_handle
           /\ ring_mod_handle' = IF u.fn = "ring_mod_update"
                                  THEN ring_mod_update(ring_mod_handle, u.pm, u.type, u.milli).handle
                                  ELSE ring_mod_handle
    /\ menu_btn' = 0
    /\ pc' = "switch"
    /\ UNCHANGED <<callback_state, btn_pressed, p, rx_buffer, tx_buffer, left_in,
                   left_out, fx_ran, dma_next, notified, processed, overrun, rb_vars,
                   fxlib_vars, turns>>

(***************************************************************************)
(* main.c                                                                  *)
(***************************************************************************)
RECURSIVE BitLen(_)
BitLen(v) == IF v = 0 THEN 0 ELSE 1 + BitLen(v \div 2)

\* (float32_t) of a uint32_t: rounded to a 24 bit significand, ties to even
U32ToFloat(v) ==
    IF BitLen(v) <= 24 THEN v
    ELSE LET e == BitLen(v) - 24
             q == v \div Pow2(e)
             r == v % Pow2(e)
             up == r > Pow2(e - 1) \/ (r = Pow2(e - 1) /\ q % 2 = 1)
         IN  (q + (IF up THEN 1 ELSE 0)) * Pow2(e)

\* (uint32_t) of a float32_t that holds a whole number within the range of uint32_t
FloatToU32(f) == f

\* the i of the loop for (i = 0, j = offset; j < end; ++i, j = j + 2)
LoopIndexes == {i \in 0..SAMPLES : 2 * i < SAMPLES}

\* static void rx_samples(enum ping_pong p)
rx_samples(pp) ==
    LET offset == pp * SAMPLES
    IN  left_in' = [i \in DOMAIN left_in |->
                       IF i \in LoopIndexes
                       THEN U32ToFloat(rx_buffer[offset + 2 * i])
                       ELSE left_in[i]]

\* mutant: the result is always written to the first half of tx_buffer
tx_samples_first_half(pp) ==
    tx_buffer' = [j \in DOMAIN tx_buffer |->
                     IF j < SAMPLES /\ j % 2 = 0
                     THEN FloatToU32(left_out[j \div 2])
                     ELSE tx_buffer[j]]

\* mutant: the loop steps j by one and writes both channels of the half
tx_samples_both_channels(pp) ==
    LET offset == pp * SAMPLES
    IN  tx_buffer' = [j \in DOMAIN tx_buffer |->
                         IF j >= offset /\ j < offset + SAMPLES
                         THEN FloatToU32(left_out[(j - offset) \div 2])
                         ELSE tx_buffer[j]]

\* static void tx_samples(enum ping_pong p)
tx_samples(pp) ==
    LET offset == pp * SAMPLES
    IN  tx_buffer' = [j \in DOMAIN tx_buffer |->
                         IF j >= offset /\ j < offset + SAMPLES /\ (j - offset) % 2 = 0
                         THEN FloatToU32(left_out[(j - offset) \div 2])
                         ELSE tx_buffer[j]]

\* mutant: the copy loop stops one sample early
pass_through_short ==
    [i \in DOMAIN left_out |->
        IF i < DMA_BUFFER_SIZE \div 4 - 1 THEN left_in[i] ELSE left_out[i]]

\* static void pass_through(): the block left_out holds after it
pass_through ==
    [i \in DOMAIN left_out |->
        IF i < DMA_BUFFER_SIZE \div 4 THEN left_in[i] ELSE left_out[i]]

\* the values a sample of an effect's output block takes; the arithmetic of the
\* effects is left open here
EffectSamples == {0, 1}

\* mutant: case FXDELAY has no break and runs on into the overdrive
RunFunctions_delay_falls_through(md) ==
    CASE md = FXDELAY -> <<"run_delay", "run_overdrive">>
      [] md = FXFILTER -> <<"run_fir_filter">>
      [] md = FXTREMOLO -> <<"run_tremolo", "run_fuzz">>
      [] md = FXFUZZ -> <<"run_fuzz">>
      [] md = FXOVERDRIVE -> <<"run_overdrive">>
      [] md = FXRINGMOD -> <<"run_ring_mod">>
      [] OTHER -> <<"pass_through">>

\* the run functions the switch of run_fx invokes for a mode, in order
RunFunctions(md) ==
    CASE md = FXDELAY -> <<"run_delay">>
      [] md = FXFILTER -> <<"run_fir_filter">>
      [] md = FXTREMOLO -> <<"run_tremolo", "run_fuzz">>
      [] md = FXFUZZ -> <<"run_fuzz">>
      [] md = FXOVERDRIVE -> <<"run_overdrive">>
      [] md = FXRINGMOD -> <<"run_ring_mod">>
      [] OTHER -> <<"pass_through">>

\* static void run_fx(uint8_t mode)
run_fx(md) ==
    /\ fx_ran' = RunFunctions(md)
    /\ IF RunFunctions(md) = <<"pass_through">>
       THEN left_out' = pass_through
       ELSE left_out' \in [DOMAIN left_out -> EffectSamples]

\* mutant: display_menu is called on every iteration, whatever callback_state holds
MainSwitch_menu_always ==
    /\ pc = "switch"
    /\ pc' = "display_menu"
    /\ menu_btn' = btn_pressed
    /\ p' = p
    /\ UNCHANGED <<callback_state, mode, btn_pressed, menu, TIM2_CNT, fx_update,
                   rx_buffer, tx_buffer, left_in, left_out, fx_ran, dma_next,
                   notified, processed, overrun, rb_vars, fx_vars, turns>>

\* switch (callback_state) of the control loop
MainSwitch ==
    /\ pc = "switch"
    /\ CASE callback_state = NONE ->
                /\ pc' = "display_menu"
                /\ menu_btn' = btn_pressed
                /\ p' = p
         [] callback_state = HALFCPLT ->
                /\ pc' = "rx_samples"
                /\ p' = PING
                /\ menu_btn' = menu_btn
         [] callback_state = CPLT ->
                /\ pc' = "rx_samples"
                /\ p' = PONG
                /\ menu_btn' = menu_btn
         [] OTHER ->
                /\ pc' = "Error_Handler"
                /\ UNCHANGED <<p, menu_btn>>
    /\ UNCHANGED <<callback_state, mode, btn_pressed, menu, TIM2_CNT, fx_update,
                   rx_buffer, tx_buffer, left_in, left_out, fx_ran, dma_next,
                   notified, processed, overrun, rb_vars, fx_vars, turns>>

\* rx_samples(PING) or rx_samples(PONG) of the control loop
MainRxSamples ==
    /\ pc = "rx_samples"
    /\ rx_samples(p)
    /\ pc' = "run_fx"
    /\ UNCHANGED <<callback_state, mode, btn_pressed, p, menu_btn, menu, TIM2_CNT,
                   fx_update, rx_buffer, tx_buffer, left_out, fx_ran, dma_next,
                   notified, processed, overrun, rb_vars, fx_vars, turns>>

\* run_fx(mode) of the control loop
MainRunFx ==
    /\ pc = "run_fx"
    /\ run_fx(mode)
    /\ pc' = "tx_samples"
    /\ UNCHANGED <<callback_state, mode, btn_pressed, p, menu_btn, menu, TIM2_CNT,
                   fx_update, rx_buffer, tx_buffer, left_in, dma_next,
                   notified, processed, overrun, rb_vars, fx_vars, turns>>

\* tx_samples(PING) or tx_samples(PONG) of the control loop
MainTxSamples ==
    /\ pc = "tx_samples"
    /\ tx_samples(p)
    /\ pc' = "reset"
    /\ processed' = Append(processed, p)
    /\ UNCHANGED <<callback_state, mode, btn_pressed, p, menu_btn, menu, TIM2_CNT,
                   fx_update, rx_buffer, left_in, left_out, fx_ran, dma_next,
                   notified, overrun, rb_vars, fx_vars, turns>>

\* callback_state = NONE; break; of the control loop
\* mutant: the end of a pass puts the mode back to FXNONE
MainReset_resets_mode ==
    /\ pc = "reset"
    /\ callback_state' = NONE
    /\ mode' = FXNONE
    /\ pc' = "switch"
    /\ UNCHANGED <<btn_pressed, p, menu_btn, menu, TIM2_CNT, fx_update,
                   rx_buffer, tx_buffer, left_in, left_out, fx_ran, dma_next,
                   notified, processed, overrun, rb_vars, fx_vars, turns>>

MainReset ==
    /\ pc = "reset"
    /\ callback_state' = NONE
    /\ pc' = "switch"
    /\ UNCHANGED <<mode, btn_pressed, p, menu_btn, menu, TIM2_CNT, fx_update,
                   rx_buffer, tx_buffer, left_in, left_out, fx_ran, dma_next,
                   notified, processed, overrun, rb_vars, fx_vars, turns>>

\* one step of while (1) in main()
main == MainSwitch \/ display_menu \/ MainRxSamples \/ MainRunFx \/ MainTxSamples \/ MainReset

\* interrupts are served until Error_Handler runs __disable_irq()
IrqEnabled == pc # "Error_Handler"

\* void HAL_I2SEx_TxRxHalfCpltCallback(I2S_HandleTypeDef *hi2s)
HAL_I2SEx_TxRxHalfCpltCallback ==
    /\ IrqEnabled
    /\ dma_next = HALFCPLT
    /\ Len(notified) < MaxNotifications
    /\ callback_state' = HALFCPLT
    /\ dma_next' = CPLT
    /\ notified' = Append(notified, PING)
    /\ overrun' = (overrun \/ callback_state # NONE)
    /\ UNCHANGED <<mode, btn_pressed, pc, p, menu_btn, menu, TIM2_CNT, fx_update,
                   rx_buffer, tx_buffer, left_in, left_out, fx_ran, processed, rb_vars, fx_vars, turns>>

\* void HAL_I2SEx_TxRxCpltCallback(I2S_HandleTypeDef *hi2s)
HAL_I2SEx_TxRxCpltCallback ==
    /\ IrqEnabled
    /\ dma_next = CPLT
    /\ Len(notified) < MaxNotifications
    /\ callback_state' = CPLT
    /\ dma_next' = HALFCPLT
    /\ notified' = Append(notified, PONG)
    /\ overrun' = (overrun \/ callback_state # NONE)
    /\ UNCHANGED <<mode, btn_pressed, pc, p, menu_btn, menu, TIM2_CNT, fx_update,
                   rx_buffer, tx_buffer, left_in, left_out, fx_ran, processed, rb_vars, fx_vars, turns>>

\* mutant: the button interrupt itself commits the delay as the active mode
HAL_GPIO_EXTI_Callback_sets_mode(GPIO_Pin) ==
    /\ IrqEnabled
    /\ btn_pressed' = IF GPIO_Pin = "GPIO_PIN_9" THEN 1 ELSE btn_pressed
    /\ mode' = IF GPIO_Pin = "GPIO_PIN_9" THEN FXDELAY ELSE mode
    /\ UNCHANGED <<callback_state, pc, p, menu_btn, menu, TIM2_CNT, fx_update,
                   rx_buffer, tx_buffer, left_in, left_out, fx_ran, dma_next,
                   notified, processed, overrun, rb_vars, fx_vars, turns>>

\* void HAL_GPIO_EXTI_Callback(uint16_t GPIO_Pin)
HAL_GPIO_EXTI_Callback(GPIO_Pin) ==
    /\ IrqEnabled
    /\ btn_pressed' = IF GPIO_Pin = "GPIO_PIN_9" THEN 1 ELSE btn_pressed
    /\ UNCHANGED <<callback_state, mode, pc, p, menu_btn, menu, TIM2_CNT, fx_update,
                   rx_buffer, tx_buffer, left_in, left_out, fx_ran, dma_next,
                   notified, processed, overrun, rb_vars, fx_vars, turns>>

ButtonIrq == \E pin \in {"GPIO_PIN_9", "GPIO_PIN_8"} : HAL_GPIO_EXTI_Callback(pin)

(***************************************************************************)
(* fx_lib.c: the delay effect and its ring buffer                          *)
(***************************************************************************)
\* float32_t delay_buffer[1 << 16]: ARRAY_SIZE(delay_buffer)
DelayBufferSize == Pow2(DelayLineBits)

\* the bytes of a stored sample (held in thousandths) and the sample of such bytes
FloatBytes(v) == [k \in 1..DelayElemSize |-> (v \div Pow2(8 * (k - 1))) % 256]

BytesFloat(b) ==
    LET RECURSIVE Sum(_)
        Sum(k) == IF k = 0 THEN 0 ELSE b[k] * Pow2(8 * (k - 1)) + Sum(k - 1)
    IN  Sum(DelayElemSize)

\* what (uint16_t) yields for a float below -1, which the type cannot hold
UbSamples == {0, 1}

\* uint16_t delay_in_samples = (uint16_t)(handle->delay_ms * (Fs / 1000.0f))
DelayInSamples(delay_ms) ==
    IF delay_ms * Fs <= -1000000 THEN UbSamples
    ELSE IF delay_ms < 0 THEN {0}
    ELSE {((delay_ms * Fs) \div 1000000) % Pow2(16)}

\* ring_buffer_clear(rbd) with rbd >= RING_BUFFER_MAX: _rb[rbd] lies behind the
\* array, nothing of the registered buffers is written
ring_buffer_clear_outside(d) ==
    /\ rb_call' = Call("clear", d, SUCCESS, <<>>)
    /\ since_clear' = -1
    /\ UNCHANGED <<_rb, index, storage, rbd, fifo>>

\* delay_init from its entry to the start of the fill loop
delay_init(in_buffer, out_buffer, delay_ms, blend, feedback) ==
    LET code == delay_init_checks(in_buffer, out_buffer, delay_ms, blend, feedback)
        args == <<in_buffer, out_buffer, delay_ms, blend, feedback>>
    IN  IF code # 0
        THEN /\ fx_call' = FxCall("delay_init", args, code)
             /\ UNCHANGED <<_rb, index, storage, rbd, rb_call, fifo, since_clear,
                            delay_handle, fx_pc, fx_i, fx_n, delay_log>>
        ELSE /\ IF rbd = FXDELAY
                THEN ring_buffer_init(FALSE, FALSE, FALSE, DelayElemSize, DelayBufferSize)
                ELSE IF FXDELAY < RING_BUFFER_MAX
                     THEN ring_buffer_clear(FXDELAY)
                     ELSE ring_buffer_clear_outside(FXDELAY)
             /\ IF rb_call'.name = "init" /\ rb_call'.ret # SUCCESS
                THEN /\ fx_call' = FxCall("delay_init", args, 253)
                     /\ UNCHANGED <<delay_handle, fx_pc, fx_i, fx_n, delay_log>>
                ELSE /\ delay_handle' = delay_init_commit(delay_handle, in_buffer, out_buffer,
                                                          delay_ms, blend, feedback)
                     /\ fx_n' \in DelayInSamples(delay_ms)
                     /\ fx_i' = 0
                     /\ fx_pc' = "delay_init_fill"
                     /\ fx_call' = FxCall("delay_init", args, -1)
                     /\ delay_log' = <<>>

\* for (int i = 0 ; i < delay_in_samples ; ++i) ring_buffer_put(FXDELAY, &zero);
\* return 0;
delay_init_fill ==
    /\ fx_pc = "delay_init_fill"
    /\ IF fx_i < fx_n
       THEN /\ ring_buffer_put(FXDELAY, FloatBytes(0))
            /\ fx_i' = fx_i + 1
            /\ delay_rb_failed' = (delay_rb_failed \/ rb_call'.ret = FAILURE)
            /\ UNCHANGED <<fx_call, fx_pc>>
       ELSE /\ fx_call' = [fx_call EXCEPT !.ret = 0]
            /\ fx_pc' = "idle"
            /\ UNCHANGED <<_rb, index, storage, rbd, rb_call, fifo, since_clear,
                           fx_i, delay_rb_failed>>
    /\ UNCHANGED <<init_arg, sched_vars, handle_vars, fx_n, caller_fx, max_z_sign, delay_log, turns>>

\* delay->dst[i] = (1.0f - blend) * src[i] + blend * delayed, in whole sample units;
\* delayed is held in thousandths
DelayMix(h, src, delayed) ==
    ((1000 - h.blend) * src * 1000 + h.blend * delayed) \div 1000000

\* run_delay: float32_t current = src[i] * feedback; ring_buffer_put(FXDELAY, &current);
\* or the end of the loop
run_delay_put ==
    /\ fx_pc = "run_delay_put"
    /\ IF fx_i < PING_PONG_BUFFER_SIZE
       THEN /\ ring_buffer_put(FXDELAY, FloatBytes(left_in[fx_i] * delay_handle.feedback))
            /\ fx_pc' = "run_delay_get"
            /\ delay_rb_failed' = (delay_rb_failed \/ rb_call'.ret = FAILURE)
            /\ UNCHANGED fx_call
       ELSE /\ fx_call' = FxCall("run_delay", <<>>, 0)
            /\ fx_pc' = "idle"
            /\ UNCHANGED <<_rb, index, storage, rbd, rb_call, fifo, since_clear,
                           delay_rb_failed>>
    /\ UNCHANGED <<init_arg, sched_vars, handle_vars, fx_i, fx_n, caller_fx, max_z_sign, delay_log, turns>>

\* run_delay: ring_buffer_get(FXDELAY, &delayed); dst[i] = ...; ++i
\* delayed keeps its initial 0.0f when the get fails
run_delay_get ==
    /\ fx_pc = "run_delay_get"
    /\ ring_buffer_get(FXDELAY)
    /\ LET delayed == IF rb_call'.ret = SUCCESS THEN BytesFloat(rb_call'.out) ELSE 0
       IN  /\ left_out' = [left_out EXCEPT ![fx_i] = DelayMix(delay_handle, left_in[fx_i], delayed)]
           /\ delay_log' = Append(delay_log,
                                  [src |-> left_in[fx_i],
                                   current |-> left_in[fx_i] * delay_handle.feedback,
                                   delayed |-> delayed])
    /\ delay_rb_failed' = (delay_rb_failed \/ rb_call'.ret = FAILURE)
    /\ fx_i' = fx_i + 1
    /\ fx_pc' = "run_delay_put"
    /\ UNCHANGED <<init_arg, callback_state, mode, btn_pressed, pc, p, menu_btn, menu,
                   TIM2_CNT, fx_update, rx_buffer, tx_buffer, left_in, fx_ran, dma_next,
                   notified, processed, overrun, handle_vars, fx_call, fx_n, caller_fx, max_z_sign, turns>>

(***************************************************************************)
(* fx_lib.c: the fuzz effect                                               *)
(***************************************************************************)
\* float32_t q = handle->src[i] * handle->gain / (1 << 24), up to the positive
\* factor 1000 / (1 << 24): its sign and whether it is zero
FuzzQ(h, x) == x * h.gain

\* the sign of z[i]: 0 for q = 0, else that of -q / fabs(q) * (1 - expf(-fabs(q))),
\* whose second factor is taken as positive
FuzzZSign(q) == IF q = 0 THEN 0 ELSE IF q > 0 THEN -1 ELSE 1

\* max_z after the first loop: it starts as 0 and takes z[i] when z[i] > max_z
FuzzMaxZSign(h, src) ==
    IF \E i \in DOMAIN src : FuzzZSign(FuzzQ(h, src[i])) > 0 THEN 1 ELSE 0

\* void run_fuzz(fuzz_handle_t *handle) on the block src: the second loop divides
\* by max_z for every sample; the values written to dst are not computed
run_fuzz(h, src) ==
    /\ max_z_sign' = FuzzMaxZSign(h, src)
    /\ left_out' \in [DOMAIN left_out -> EffectSamples]
    /\ fx_call' = FxCall("run_fuzz", <<>>, 0)

(***************************************************************************)
(* A caller of fx_lib.c that exercises the functions of one effect         *)
(***************************************************************************)
\* the arguments of an init call: the working blocks with every parameter tuple
\* of params, and each buffer NULL in turn with the parameter tuple valid
InitCallArgs(params, valid) ==
    {<<"left_in", "left_out">> \o q : q \in params}
    \cup {<<"NULL", "left_out">> \o valid, <<"left_in", "NULL">> \o valid}

\* values of a parameter whose limits are 0 and 1 (or 0.4, 0.99), in thousandths
UnitValues == {-100, 0, 300, 400, 500, 990, 1000, 1001}

\* the values at and around the limits 0 and 1
EdgeValues == {-100, 0, 500, 1000, 1001}

\* values of the fuzz gain, in thousandths
GainValues == {-100, 0, 9000, 18000, 18001}

\* the arguments of a delay_init call: buffers, delay time in thousandths of a
\* millisecond, blend, feedback; the accepted combinations, and each argument in
\* turn at or beyond a limit
DelayInitArgs ==
    InitCallArgs(
        {<<t, blend, 400>> : t \in {-250000, 0, 250000, 500000}, blend \in {400, 500}}
        \cup {<<250000, 400, feedback>> : feedback \in {0, 500, 990}}
        \cup {<<250000, blend, 400>> : blend \in {0, 1000}}
        \cup {<<500001, 400, 400>>},
        <<250000, 400, 400>>)

\* the arguments of a delay_update call: parameter id and value
DelayUpdateArgs ==
    {<<DELAY, t>> : t \in {-250000, 0, 250000, 500001}}
    \cup {<<pm, v>> : pm \in {FEEDBACK, BLEND}, v \in {-100, 0, 300, 1000, 1001}}
    \cup {<<3, 300>>}

OverdriveInitArgs == InitCallArgs({<<t>> : t \in UnitValues}, <<300>>)

FuzzInitArgs ==
    InitCallArgs({<<gain, mix>> : gain \in GainValues, mix \in {-100, 0, 500, 990, 1000}},
                 <<9000, 500>>)

FuzzUpdateArgs ==
    {<<GAIN, v>> : v \in GainValues}
    \cup {<<MIX, v>> : v \in {-100, 0, 500, 990, 1000}}
    \cup {<<2, 500>>}

TremoloInitArgs ==
    InitCallArgs({<<rate, depth>> : rate \in EdgeValues, depth \in EdgeValues}, <<500, 500>>)

TremoloUpdateArgs == {<<pm, v>> : pm \in {RATE, DEPTH}, v \in EdgeValues} \cup {<<2, 500>>}

RingModInitArgs ==
    InitCallArgs({<<rate, blend, type>> : rate \in EdgeValues,
                                          blend \in {-100, 0, 500, 990, 1000},
                                          type \in {SINE, TRIANGLE, SQUARE}},
                 <<500, 500, SINE>>)

RingModUpdateArgs ==
    {<<pm, type, v>> : pm \in {RATE, DEPTH}, type \in {TRIANGLE, NO_CHANGE}, v \in EdgeValues}
    \cup {<<2, type, 255000>> : type \in SINE..NO_CHANGE}

\* the input blocks fed to run_delay: silence, or an impulse on the first sample
DelayBlocks ==
    {[i \in 0..(PING_PONG_BUFFER_SIZE - 1) |-> 0],
     [i \in 0..(PING_PONG_BUFFER_SIZE - 1) |-> IF i = 0 THEN 1 ELSE 0]}

CallDelayInit ==
    /\ caller_fx = FXDELAY
    /\ fx_pc = "idle"
    /\ \E a \in DelayInitArgs : delay_init(a[1], a[2], a[3], a[4], a[5])
    /\ UNCHANGED <<init_arg, sched_vars, overdrive_handle, fuzz_handle, tremolo_handle,
                   ring_mod_handle, caller_fx, max_z_sign, delay_rb_failed, turns>>

CallDelayUpdate ==
    /\ caller_fx = FXDELAY
    /\ fx_pc = "idle"
    /\ \E a \in DelayUpdateArgs :
           LET r == delay_update(delay_handle, a[1], a[2])
           IN  /\ delay_handle' = r.handle
               /\ fx_call' = FxCall("delay_update", a, r.ret)
    /\ UNCHANGED <<rb_vars, sched_vars, overdrive_handle, fuzz_handle, tremolo_handle,
                   ring_mod_handle, fx_pc, fx_i, fx_n, caller_fx, max_z_sign, delay_log,
                   delay_rb_failed, turns>>

\* run_delay(&delay_handle) on a fresh input block, once delay_init has set src and dst
CallRunDelay ==
    /\ caller_fx = FXDELAY
    /\ fx_pc = "idle"
    /\ delay_handle.src = "left_in"
    /\ delay_handle.dst = "left_out"
    /\ Len(delay_log) < MaxDelayBlocks * PING_PONG_BUFFER_SIZE
    /\ left_in' \in DelayBlocks
    /\ fx_pc' = "run_delay_put"
    /\ fx_i' = 0
    /\ UNCHANGED <<rb_vars, callback_state, mode, btn_pressed, pc, p, menu_btn, menu,
                   TIM2_CNT, fx_update, rx_buffer, tx_buffer, left_out, fx_ran, dma_next,
                   notified, processed, overrun, handle_vars, fx_call, fx_n, caller_fx, max_z_sign,
                   delay_log, delay_rb_failed, turns>>

CallOverdriveInit ==
    /\ caller_fx = FXOVERDRIVE
    /\ \E a \in OverdriveInitArgs :
           LET r == overdrive_init(overdrive_handle, a[1], a[2], a[3])
           IN  /\ overdrive_handle' = r.handle
               /\ fx_call' = FxCall("overdrive_init", a, r.ret)
    /\ UNCHANGED <<rb_vars, sched_vars, delay_handle, fuzz_handle, tremolo_handle,
                   ring_mod_handle, fx_pc, fx_i, fx_n, caller_fx, max_z_sign, delay_log,
                   delay_rb_failed, turns>>

CallOverdriveUpdate ==
    /\ caller_fx = FXOVERDRIVE
    /\ \E threshold \in UnitValues :
           LET r == overdrive_update(overdrive_handle, threshold)
           IN  /\ overdrive_handle' = r.handle
               /\ fx_call' = FxCall("overdrive_update", <<threshold>>, r.ret)
    /\ UNCHANGED <<rb_vars, sched_vars, delay_handle, fuzz_handle, tremolo_handle,
                   ring_mod_handle, fx_pc, fx_i, fx_n, caller_fx, max_z_sign, delay_log,
                   delay_rb_failed, turns>>

CallFuzzInit ==
    /\ caller_fx = FXFUZZ
    /\ \E a \in FuzzInitArgs :
           LET r == fuzz_init(fuzz_handle, a[1], a[2], a[3], a[4])
           IN  /\ fuzz_handle' = r.handle
               /\ fx_call' = FxCall("fuzz_init", a, r.ret)
    /\ UNCHANGED <<rb_vars, sched_vars, delay_handle, overdrive_handle, tremolo_handle,
                   ring_mod_handle, fx_pc, fx_i, fx_n, caller_fx, max_z_sign, delay_log,
                   delay_rb_failed, turns>>

CallFuzzUpdate ==
    /\ caller_fx = FXFUZZ
    /\ \E a \in FuzzUpdateArgs :
           LET r == fuzz_update(fuzz_handle, a[1], a[2])
           IN  /\ fuzz_handle' = r.handle
               /\ fx_call' = FxCall("fuzz_update", a, r.ret)
    /\ UNCHANGED <<rb_vars, sched_vars, delay_handle, overdrive_handle, tremolo_handle,
                   ring_mod_handle, fx_pc, fx_i, fx_n, caller_fx, max_z_sign, delay_log,
                   delay_rb_failed, turns>>

\* the input blocks fed to run_fuzz: silence, a positive sample, a negative sample
FuzzBlocks ==
    {[i \in 0..(PING_PONG_BUFFER_SIZE - 1) |-> 0],
     [i \in 0..(PING_PONG_BUFFER_SIZE - 1) |-> IF i = 0 THEN 1 ELSE 0],
     [i \in 0..(PING_PONG_BUFFER_SIZE - 1) |-> IF i = 0 THEN -1 ELSE 1]}

\* run_fuzz(&fuzz_handle) on a fresh input block, once fuzz_init has set src and dst
CallRunFuzz ==
    /\ caller_fx = FXFUZZ
    /\ fuzz_handle.src = "left_in"
    /\ fuzz_handle.dst = "left_out"
    /\ \E block \in FuzzBlocks :
           /\ left_in' = block
           /\ run_fuzz(fuzz_handle, block)
    /\ UNCHANGED <<rb_vars, callback_state, mode, btn_pressed, pc, p, menu_btn, menu,
                   TIM2_CNT, fx_update, rx_buffer, tx_buffer, fx_ran, dma_next,
                   notified, processed, overrun, handle_vars, fx_pc, fx_i, fx_n,
                   caller_fx, delay_log, delay_rb_failed, turns>>

CallTremoloInit ==
    /\ caller_fx = FXTREMOLO
    /\ \E a \in TremoloInitArgs :
           LET r == tremolo_init(tremolo_handle, a[1], a[2], a[3], a[4])
           IN  /\ tremolo_handle' = r.handle
               /\ fx_call' = FxCall("tremolo_init", a, r.ret)
    /\ UNCHANGED <<rb_vars, sched_vars, delay_handle, overdrive_handle, fuzz_handle,
                   ring_mod_handle, fx_pc, fx_i, fx_n, caller_fx, max_z_sign, delay_log,
                   delay_rb_failed, turns>>

CallTremoloUpdate ==
    /\ caller_fx = FXTREMOLO
    /\ \E a \in TremoloUpdateArgs :
           LET r == tremolo_update(tremolo_handle, a[1], a[2])
           IN  /\ tremolo_handle' = r.handle
               /\ fx_call' = FxCall("tremolo_update", a, r.ret)
    /\ UNCHANGED <<rb_vars, sched_vars, delay_handle, overdrive_handle, fuzz_handle,
                   ring_mod_handle, fx_pc, fx_i, fx_n, caller_fx, max_z_sign, delay_log,
                   delay_rb_failed, turns>>

CallRingModInit ==
    /\ caller_fx = FXRINGMOD
    /\ \E a \in RingModInitArgs :
           LET r == ring_mod_init(ring_mod_handle, a[1], a[2], a[3], a[4], a[5])
           IN  /\ ring_mod_handle' = r.handle
               /\ fx_call' = FxCall("ring_mod_init", a, r.ret)
    /\ UNCHANGED <<rb_vars, sched_vars, delay_handle, overdrive_handle, fuzz_handle,
                   tremolo_handle, fx_pc, fx_i, fx_n, caller_fx, max_z_sign, delay_log,
                   delay_rb_failed, turns>>

CallRingModUpdate ==
    /\ caller_fx = FXRINGMOD
    /\ \E a \in RingModUpdateArgs :
           LET r == ring_mod_update(ring_mod_handle, a[1], a[2], a[3])
           IN  /\ ring_mod_handle' = r.handle
               /\ fx_call' = FxCall("ring_mod_update", a, r.ret)
    /\ UNCHANGED <<rb_vars, sched_vars, delay_handle, overdrive_handle, fuzz_handle,
                   tremolo_handle, fx_pc, fx_i, fx_n, caller_fx, max_z_sign, delay_log,
                   delay_rb_failed, turns>>

NextFx ==
    \/ CallDelayInit
    \/ delay_init_fill
    \/ CallDelayUpdate
    \/ CallRunDelay
    \/ run_delay_put
    \/ run_delay_get
    \/ CallOverdriveInit
    \/ CallOverdriveUpdate
    \/ CallFuzzInit
    \/ CallFuzzUpdate
    \/ CallRunFuzz
    \/ CallTremoloInit
    \/ CallTremoloUpdate
    \/ CallRingModInit
    \/ CallRingModUpdate

\* the effects with a handle
Effects == {FXDELAY, FXOVERDRIVE, FXFUZZ, FXTREMOLO, FXRINGMOD}

\* the library before any call, and the effect the caller has picked
\* rbd is delay_rbd, which starts as FXDELAY
InitFx ==
    /\ InitRB
    /\ rbd = FXDELAY
    /\ InitSched
    /\ InitFxLib
    /\ caller_fx \in Effects
    /\ turns = 0

SpecFx == InitFx /\ [][NextFx]_vars

(***************************************************************************)
(* The program: main() from the entry of its control loop                  *)
(***************************************************************************)
NextSched ==
    \/ main
    \/ HAL_I2SEx_TxRxHalfCpltCallback
    \/ HAL_I2SEx_TxRxCpltCallback
    \/ ButtonIrq

\* the ring buffer and the effect handles at the entry of while (1): delay_init(&delay_handle, left_in, left_out, 400,
\* 0.4, 0.4) has registered the delay buffer and its fill puts, made with FXDELAY,
\* have failed; tremolo_init(&tremolo_handle, left_in, left_out, 0.7f, 0.8f) has run
InitStartup ==
    /\ _rb = [i \in 0..(RING_BUFFER_MAX - 1) |->
                IF i = 0
                THEN [element_size |-> DelayElemSize, max_elements |-> DelayBufferSize,
                      buf |-> "storage", head |-> 0, tail |-> 0]
                ELSE ring_buffer]
    /\ index = 1
    /\ storage = Zeros(DelayBufferSize * DelayElemSize)
    /\ rbd = 0
    /\ rb_call = Call("put", FXDELAY, FAILURE, <<>>)
    /\ init_arg = InitArg(TRUE, TRUE, TRUE, 0, 0)
    /\ fifo = <<>>
    /\ since_clear = -1
    /\ delay_handle = delay_init_commit(NoDelay, "left_in", "left_out", 400000, 400, 400)
    /\ overdrive_handle = NoOverdrive
    /\ fuzz_handle = NoFuzz
    /\ tremolo_handle = tremolo_init(NoTremolo, "left_in", "left_out", 700, 800).handle
    /\ ring_mod_handle = NoRingMod
    /\ fx_call = FxCall("tremolo_init", <<"left_in", "left_out", 700, 800>>, 0)
    /\ fx_pc = "idle"
    /\ fx_i = 0
    /\ fx_n = 0
    /\ caller_fx = FXNONE
    /\ delay_log = <<>>
    /\ delay_rb_failed = TRUE
    /\ max_z_sign = -1
    /\ turns = 0

InitMain == InitStartup /\ InitSched

SpecSched == InitMain /\ [][NextSched]_vars

\* the rotary encoder moves the counter of TIM2 one step up or down; the counter
\* wraps at its period
EncoderTurn ==
    /\ turns < MaxTurns
    /\ \E step \in {1, -1} : TIM2_CNT' = (TIM2_CNT + step) % (TIM2_PERIOD + 1)
    /\ turns' = turns + 1
    /\ UNCHANGED <<callback_state, mode, btn_pressed, pc, p, menu_btn, menu, fx_update,
                   rx_buffer, tx_buffer, left_in, left_out, fx_ran, dma_next,
                   notified, processed, overrun, rb_vars, fx_vars>>

\* the control loop with the audio notifications, the button and the encoder
NextPedal ==
    \/ main
    \/ HAL_I2SEx_TxRxHalfCpltCallback
    \/ HAL_I2SEx_TxRxCpltCallback
    \/ ButtonIrq
    \/ EncoderTurn

SpecPedal == InitMain /\ [][NextPedal]_vars

\* the control loop keeps running
FairSched == SpecSched /\ WF_vars(main)

(***************************************************************************)
(* A caller of display_menu that passes either value of btn_pressed, with  *)
(* the encoder moving between and during the calls                         *)
(***************************************************************************)
\* display_menu(btn_pressed, &mode) is entered with btn_pressed 0 or 1
CallDisplayMenu ==
    /\ pc = "switch"
    /\ menu_btn' \in {0, 1}
    /\ pc' = "display_menu"
    /\ UNCHANGED <<callback_state, mode, btn_pressed, p, menu, TIM2_CNT, fx_update,
                   rx_buffer, tx_buffer, left_in, left_out, fx_ran, dma_next,
                   notified, processed, overrun, rb_vars, fx_vars, turns>>

\* the rotary encoder moves the counter of TIM2 one step up or down
MenuEncoderTurn ==
    /\ turns < MaxMenuTurns
    /\ \E step \in {1, -1} : TIM2_CNT' = (TIM2_CNT + step) % (TIM2_PERIOD + 1)
    /\ turns' = turns + 1
    /\ UNCHANGED <<callback_state, mode, btn_pressed, pc, p, menu_btn, menu, fx_update,
                   rx_buffer, tx_buffer, left_in, left_out, fx_ran, dma_next,
                   notified, processed, overrun, rb_vars, fx_vars>>

NextMenu ==
    \/ CallDisplayMenu
    \/ display_menu
    \/ MenuEncoderTurn

SpecMenu == InitMain /\ [][NextMenu]_vars

\* a step of display_menu that takes the menu to a shallower depth
MenuPop == display_menu /\ menu'.menu_depth < menu.menu_depth

\* the menu operated by a user who wants to get back to the top level: the loop
\* keeps calling display_menu, and a step to a shallower depth that is offered
\* again and again is taken
SpecMenuLive ==
    /\ InitMain
    /\ [][NextMenu]_vars
    /\ WF_vars(CallDisplayMenu)
    /\ WF_vars(display_menu)
    /\ SF_vars(MenuPop)

\* the distances the counter of TIM2 moves between two reads of display_menu:
\* a single step, or a sweep over half of its range
SweepSteps == {1, -1, 50, -50}

\* the rotary encoder moves the counter of TIM2 before display_menu reads it again
KnobSweep ==
    /\ turns < MaxSweeps
    /\ \E step \in SweepSteps : TIM2_CNT' = (TIM2_CNT + step) % (TIM2_PERIOD + 1)
    /\ turns' = turns + 1
    /\ UNCHANGED <<callback_state, mode, btn_pressed, pc, p, menu_btn, menu, fx_update,
                   rx_buffer, tx_buffer, left_in, left_out, fx_ran, dma_next,
                   notified, processed, overrun, rb_vars, fx_vars>>

NextKnob ==
    \/ CallDisplayMenu
    \/ display_menu
    \/ KnobSweep

SpecKnob == InitMain /\ [][NextKnob]_vars

(***************************************************************************)
(* Properties of the ring buffer                                           *)
(***************************************************************************)
\* head - tail in size_t arithmetic
Diff(d) == SizeSub(_rb[d].head, _rb[d].tail)

\* the designator names a registered buffer
Registered(d) == d < index

IsPowerOfTwo(n) == \E k \in 0..(SizeBits - 1) : n = Pow2(k)

AllZero(mem) == \A i \in DOMAIN mem : mem[i] = 0

\* C1: FIFO law. Whenever elements are held, a get succeeds and returns the
\* element that was put earliest among those not yet got; a get succeeds only
\* then; a put into a buffer that is not at capacity succeeds.
C1_FifoLaw ==
    [][/\ (rb_call'.name = "get" /\ Registered(rb_call'.rbd) /\ fifo # <<>>)
          => (rb_call'.ret = SUCCESS /\ rb_call'.out = Head(fifo))
       /\ (rb_call'.name = "get" /\ rb_call'.ret = SUCCESS)
          => (fifo # <<>> /\ rb_call'.out = Head(fifo))
       /\ (rb_call'.name = "put" /\ Registered(rb_call'.rbd)
             /\ Len(fifo) < _rb[rb_call'.rbd].max_elements)
          => rb_call'.ret = SUCCESS
      ]_vars

\* a get has returned an element while a different, younger element stays queued
C1_Witness ==
    /\ rb_call.name = "get"
    /\ rb_call.ret = SUCCESS
    /\ fifo # <<>>
    /\ rb_call.out # fifo[1]
    /\ _rb[0].tail > _rb[0].max_elements

\* C2: a put into a buffer that holds max_elements elements returns FAILURE
\* and changes neither head, tail nor any storage byte.
C2_PutFullNoEffect ==
    [][(rb_call'.name = "put" /\ Registered(rb_call'.rbd)
          /\ Len(fifo) = _rb[rb_call'.rbd].max_elements)
       => (rb_call'.ret = FAILURE /\ _rb' = _rb /\ storage' = storage)
      ]_vars

\* a put has failed on a buffer of capacity N >= 1 that holds N elements
C2_Witness ==
    /\ rb_call.name = "put"
    /\ rb_call.ret = FAILURE
    /\ Registered(rb_call.rbd)
    /\ _rb[0].max_elements >= 1
    /\ Len(fifo) = _rb[0].max_elements

\* C3: a get from a buffer that holds no element returns FAILURE and changes
\* neither head, tail nor any storage byte.
C3_GetEmptyNoEffect ==
    [][(rb_call'.name = "get" /\ Registered(rb_call'.rbd) /\ fifo = <<>>)
       => (rb_call'.ret = FAILURE /\ _rb' = _rb /\ storage' = storage)
      ]_vars

\* a get has failed on a buffer that was used and drained
C3_Witness ==
    /\ rb_call.name = "get"
    /\ rb_call.ret = FAILURE
    /\ Registered(rb_call.rbd)
    /\ fifo = <<>>
    /\ _rb[0].head > 0

\* C4: for every registered buffer head - tail (unsigned) lies in
\* 0..max_elements and is the number of elements held, and ring_buffer_count
\* returns that difference.
C4_CountInvariant ==
    \A d \in 0..(RING_BUFFER_MAX - 1) :
        Registered(d) =>
            /\ Diff(d) >= 0
            /\ Diff(d) <= _rb[d].max_elements
            /\ Diff(d) = Len(fifo)
            /\ (rb_call.name = "count" /\ rb_call.rbd = d) => rb_call.ret = Diff(d)

\* count has returned the capacity of a full buffer whose counters have moved on
C4_Witness ==
    /\ rb_call.name = "count"
    /\ Registered(rb_call.rbd)
    /\ rb_call.ret = _rb[0].max_elements
    /\ rb_call.ret >= 2
    /\ _rb[0].tail > 0

\* the arguments of an init call are all valid apart from the capacity
ValidInitArg(a) == ~a.rbdNull /\ ~a.attrNull /\ ~a.bufNull /\ a.element_size > 0

\* C5: with valid pointers, a positive element size and a free slot,
\* ring_buffer_init succeeds exactly when the capacity is a power of two.
C5_PowerOfTwoValidation ==
    [][(rb_call'.name = "init" /\ index < RING_BUFFER_MAX /\ ValidInitArg(init_arg'))
       => (rb_call'.ret = SUCCESS <=> IsPowerOfTwo(init_arg'.max_elements))
      ]_vars

\* C6: right after ring_buffer_clear on a registered buffer every storage byte
\* is zero and head = tail = 0; a count that follows returns 0, a get that
\* follows fails, and max_elements puts in a row that follow all succeed.
C6_Clear ==
    /\ [](rb_call.name = "clear" /\ Registered(rb_call.rbd)
            => /\ AllZero(storage)
               /\ _rb[rb_call.rbd].head = 0
               /\ _rb[rb_call.rbd].tail = 0)
    /\ [][/\ (rb_call.name = "clear" /\ Registered(rb_call.rbd) /\ rb_call'.name = "count")
             => rb_call'.ret = 0
          /\ (rb_call.name = "clear" /\ Registered(rb_call.rbd) /\ rb_call'.name = "get")
             => rb_call'.ret = FAILURE
          /\ (rb_call'.name = "put" /\ Registered(rb_call'.rbd)
                /\ since_clear >= 0 /\ since_clear < _rb[rb_call'.rbd].max_elements)
             => rb_call'.ret = SUCCESS
         ]_vars

\* max_elements >= 2 puts in a row have succeeded right after a clear of a used buffer
C6_Witness ==
    /\ Registered(0)
    /\ _rb[0].max_elements >= 2
    /\ since_clear = _rb[0].max_elements
    /\ rb_call.name = "put"
    /\ rb_call.ret = SUCCESS

(***************************************************************************)
(* Properties of the scheduler                                             *)
(***************************************************************************)
IsPrefix(s, t) == Len(s) <= Len(t) /\ \A i \in 1..Len(s) : s[i] = t[i]

\* the half a pending value of callback_state stands for
HalfOf(cs) == IF cs = HALFCPLT THEN PING ELSE PONG

\* C7: overrun detection. Once a notification has been raised while
\* callback_state was not NONE, the control loop starts no further pass and no
\* further menu call: its next dispatch enters the fatal state Error_Handler.
C7_OverrunIsFatal ==
    [][(overrun /\ pc = "switch" /\ pc' # "switch") => pc' = "Error_Handler"]_vars

\* C8: every notification is followed by exactly one pass over its half: the
\* passes finished are, in order, an initial part of the notifications raised,
\* and when the loop is back at the switch with callback_state = NONE every
\* notification raised has had its pass.
C8_ExactlyOnePassPerNotification ==
    /\ IsPrefix(processed, notified)
    /\ (pc = "switch" /\ callback_state = NONE) => processed = notified

\* callback_state holds one of its three enumerators and the default branch of
\* the switch is not taken
SchedTypeOK ==
    /\ callback_state \in {NONE, HALFCPLT, CPLT}
    /\ pc # "Error_Handler"

\* a pending callback_state is eventually back at NONE while the loop keeps running
EventuallyIdle == (callback_state # NONE) ~> (callback_state = NONE)

\* C9: callback_state always holds one of NONE, HALFCPLT, CPLT, the default
\* branch is never taken, and a pending value HALFCPLT or CPLT is only ever
\* replaced by NONE, by the control loop at the end of a pass over the half
\* that value stands for.
C9_ReturnedToIdleAfterItsBlock ==
    /\ []SchedTypeOK
    /\ [][(callback_state # NONE /\ callback_state' # callback_state)
            => /\ callback_state' = NONE
               /\ pc = "reset"
               /\ p = HalfOf(callback_state)
         ]_vars

\* C10 as stated: callback_state is NONE at every point of an execution of
\* display_menu.
C10_MenuOnlyWhileIdle == (pc = "display_menu") => (callback_state = NONE)

\* C10 as amended: display_menu is started only by the NONE branch of the
\* switch, that is when the control loop has just read callback_state as NONE,
\* and display_menu itself leaves callback_state as it is.
C10_MenuStartedWhenIdle ==
    [][/\ (pc' = "display_menu" /\ pc # "display_menu")
          => (pc = "switch" /\ callback_state = NONE)
       /\ (pc = "display_menu" /\ pc' # "display_menu")
          => (pc' = "switch" /\ callback_state' = callback_state)
      ]_vars

\* display_menu is executing and a notification has arrived meanwhile
C10_Witness == pc = "display_menu" /\ callback_state # NONE /\ Len(notified) = 1

(***************************************************************************)
(* One pass of the control loop over a notified half, for every mode       *)
(***************************************************************************)
\* the mode arguments of run_fx: the designators of enum fx_designator
Modes == FXNONE..FXFILTER

\* the blocks the codec has written to rx_buffer: a ramp, silence, and samples
\* above 2^24 that the conversion to float32_t rounds
InputBlocks ==
    {[j \in 0..(DMA_BUFFER_SIZE - 1) |-> j + 1],
     [j \in 0..(DMA_BUFFER_SIZE - 1) |-> 0],
     [j \in 0..(DMA_BUFFER_SIZE - 1) |-> Pow2(24) - 1 - j],
     [j \in 0..(DMA_BUFFER_SIZE - 1) |-> Pow2(24) + 1 + j]}

\* a notification is pending and the control loop is about to dispatch on it, for
\* each half, each mode and each input block
InitDispatch ==
    /\ InitStartup
    /\ p \in {PING, PONG}
    /\ callback_state \in {HALFCPLT, CPLT}
    /\ dma_next = IF callback_state = HALFCPLT THEN CPLT ELSE HALFCPLT
    /\ notified = IF callback_state = HALFCPLT THEN <<PING>> ELSE <<PING, PONG>>
    /\ processed = IF callback_state = HALFCPLT THEN <<>> ELSE <<PING>>
    /\ overrun = FALSE
    /\ mode \in Modes
    /\ btn_pressed = 0
    /\ menu_btn = 0
    /\ menu = [cnt |-> 0, past_cnt |-> 0, menu_depth |-> 0, item_selected |-> 0,
               sub_menu_selected |-> 0, show_values |-> 0]
    /\ TIM2_CNT = 0
    /\ fx_update = NoUpdate
    /\ pc = "switch"
    /\ rx_buffer \in InputBlocks
    /\ tx_buffer = [j \in 0..(DMA_BUFFER_SIZE - 1) |-> 0]
    /\ left_in = [i \in 0..(PING_PONG_BUFFER_SIZE - 1) |-> 0]
    /\ left_out = [i \in 0..(PING_PONG_BUFFER_SIZE - 1) |-> 0]
    /\ fx_ran = <<>>

NextDispatch ==
    \/ MainSwitch
    \/ MainRxSamples
    \/ MainRunFx
    \/ MainTxSamples
    \/ MainReset

SpecDispatch == InitDispatch /\ [][NextDispatch]_vars

(***************************************************************************)
(* Properties of the effect updates and the effect dispatch                *)
(***************************************************************************)
\* the control loop is inside a pass over a sample block
InPass == pc \in {"rx_samples", "run_fx", "tx_samples", "reset"}

\* C11: the effect handles and the active mode are written only by a step of
\* display_menu, which starts and ends outside a pass over a sample block; while
\* a pass is in flight no handle field and no mode write changes under it
C11_UpdatesOutsidePass ==
    [][(handle_vars' # handle_vars \/ mode' # mode \/ fx_update' # fx_update)
           => (pc = "display_menu" /\ ~InPass /\ pc' = "switch" /\ ~InPass')]_vars

\* C11 witness: a pass runs its effect after the menu has updated the delay time
C11_Witness ==
    /\ pc = "run_fx"
    /\ fx_update.fn = "delay_update"
    /\ delay_handle.delay_ms = 250000

\* the run function that belongs to a mode
Selected(md) ==
    CASE md = FXDELAY -> "run_delay"
      [] md = FXOVERDRIVE -> "run_overdrive"
      [] md = FXFUZZ -> "run_fuzz"
      [] md = FXTREMOLO -> "run_tremolo"
      [] md = FXRINGMOD -> "run_ring_mod"
      [] md = FXFILTER -> "run_fir_filter"
      [] OTHER -> "pass_through"

\* C12: for every value of the active mode, run_fx invokes the run function of
\* the selected effect (pass_through for FXNONE) and no other run function
C12_ExactlyOneEffectRuns ==
    [][(pc = "run_fx") => (fx_ran' = <<Selected(mode)>>)]_vars

\* C16: with the active mode FXNONE, after run_fx every one of the
\* PING_PONG_BUFFER_SIZE samples of left_out equals the sample of left_in at the
\* same index, and left_in is unchanged
C16_PassThroughIdentity ==
    [][(pc = "run_fx" /\ mode = FXNONE)
           => /\ DOMAIN left_out' = 0..(PING_PONG_BUFFER_SIZE - 1)
              /\ \A i \in 0..(PING_PONG_BUFFER_SIZE - 1) : left_out'[i] = left_in[i]
              /\ left_in' = left_in]_vars

\* C16 witness: pass_through has copied a block of distinct rounded samples
C16_Witness ==
    /\ pc = "tx_samples"
    /\ mode = FXNONE
    /\ fx_ran = <<"pass_through">>
    /\ left_in[0] = Pow2(24)
    /\ left_in[PING_PONG_BUFFER_SIZE - 1] # left_in[0]
    /\ left_out = left_in

(***************************************************************************)
(* Properties of the update and init functions of fx_lib.c                 *)
(***************************************************************************)
\* the step is a call of the function name that has just returned
Returned(name) ==
    /\ fx_call'.name = name
    /\ fx_call'.ret # -1
    /\ <<fx_call, handle_vars>>' # <<fx_call, handle_vars>>

\* the handle field a parameter id of delay_update names
DelayParameter(pm) ==
    CASE pm = DELAY -> "delay_ms"
      [] pm = FEEDBACK -> "feedback"
      [] pm = BLEND -> "blend"
      [] OTHER -> "none"

\* the handle field a parameter id of fuzz_update names
FuzzParameter(pm) ==
    CASE pm = GAIN -> "gain"
      [] pm = MIX -> "mix"
      [] OTHER -> "none"

\* the handle field a parameter id of tremolo_update names
TremoloParameter(pm) ==
    CASE pm = RATE -> "rate"
      [] pm = DEPTH -> "depth"
      [] OTHER -> "none"

\* the handle field a parameter id of ring_mod_update names
RingModParameter(pm) ==
    CASE pm = RATE -> "rate"
      [] pm = DEPTH -> "blend"
      [] OTHER -> "none"

\* handle g is handle h with exactly field f set to v (h itself when no field is
\* named) after a call that returned 0, and h itself after a call that failed
OneParameter(h, g, f, v, ret) ==
    IF ret = 0 /\ f # "none" THEN g = [h EXCEPT ![f] = v] ELSE g = h

\* the same for ring_mod_update, whose type argument names the modulator type
OneParameterAndType(h, g, f, type, v, ret) ==
    LET t == IF ret = 0 /\ type # NO_CHANGE THEN [h EXCEPT !.type = type] ELSE h
    IN  IF ret = 0 /\ f # "none" THEN g = [t EXCEPT ![f] = v] ELSE g = t

\* C13 for fuzz_update, tremolo_update and ring_mod_update
UpdateFrameOthers ==
    /\ Returned("fuzz_update") =>
           /\ OneParameter(fuzz_handle, fuzz_handle', FuzzParameter(fx_call'.args[1]),
                           fx_call'.args[2], fx_call'.ret)
           /\ UNCHANGED <<delay_handle, overdrive_handle, tremolo_handle, ring_mod_handle>>
    /\ Returned("tremolo_update") =>
           /\ OneParameter(tremolo_handle, tremolo_handle',
                           TremoloParameter(fx_call'.args[1]), fx_call'.args[2],
                           fx_call'.ret)
           /\ UNCHANGED <<delay_handle, overdrive_handle, fuzz_handle, ring_mod_handle>>
    /\ Returned("ring_mod_update") =>
           /\ OneParameterAndType(ring_mod_handle, ring_mod_handle',
                                  RingModParameter(fx_call'.args[1]), fx_call'.args[2],
                                  fx_call'.args[3], fx_call'.ret)
           /\ UNCHANGED <<delay_handle, overdrive_handle, fuzz_handle, tremolo_handle>>

\* C13 for delay_update
UpdateFrameDelay ==
    Returned("delay_update") =>
        /\ OneParameter(delay_handle, delay_handle', DelayParameter(fx_call'.args[1]),
                        fx_call'.args[2], fx_call'.ret)
        /\ UNCHANGED <<overdrive_handle, fuzz_handle, tremolo_handle, ring_mod_handle>>

\* C13: a call of delay_update, fuzz_update, tremolo_update or ring_mod_update
\* that returns 0 sets exactly the handle field its parameter id names to the
\* value and leaves every other field of every handle as it was; a call that
\* returns an error code leaves every handle as it was
C13_UpdateChangesOneParameter == [][UpdateFrameDelay /\ UpdateFrameOthers]_vars

\* the part of C13 that holds: fuzz_update, tremolo_update, ring_mod_update
C13_OtherUpdatesChangeOneParameter == [][UpdateFrameOthers]_vars

\* C14: overdrive_update returns 0 and stores the threshold exactly when it lies
\* in (0, 0.4]; any other value returns the error code and leaves the handle, and
\* so the prior threshold, as it was; handle->threshold, which run_overdrive reads,
\* is written by no step other than a successful overdrive_init or overdrive_update
C14_OverdriveThresholdRange ==
    [][/\ Returned("overdrive_update") =>
              LET threshold == fx_call'.args[1]
              IN  IF threshold > 0 /\ threshold <= 400
                  THEN /\ fx_call'.ret = 0
                       /\ overdrive_handle' =
                              [overdrive_handle EXCEPT !.threshold = threshold]
                  ELSE /\ fx_call'.ret # 0
                       /\ overdrive_handle' = overdrive_handle
       /\ overdrive_handle'.threshold # overdrive_handle.threshold =>
              /\ fx_call'.name \in {"overdrive_init", "overdrive_update"}
              /\ fx_call'.ret = 0
              /\ overdrive_handle'.threshold = fx_call'.args[Len(fx_call'.args)]]_vars

\* C14 witness: overdrive_update(0.5) has failed after overdrive_update(0.3) succeeded,
\* and the threshold is still 0.3
C14_Witness ==
    /\ fx_call = FxCall("overdrive_update", <<500>>, 255)
    /\ overdrive_handle.threshold = 300

\* C14 witness of the accepted side: the upper limit 0.4 itself has been stored
C14_WitnessAccepted ==
    /\ fx_call = FxCall("overdrive_update", <<400>>, 0)
    /\ overdrive_handle.threshold = 400

\* the step enters or leaves a call of the function name
Called(name) ==
    /\ fx_call'.name = name
    /\ <<fx_call, handle_vars>>' # <<fx_call, handle_vars>>

\* the parameter ranges the headers of the init functions document, in thousandths;
\* for the delay time only that it is not negative and not above MAX_DELAY_TIME
DelayInitInRange(a) ==
    /\ a[3] >= 0 /\ a[3] <= MAX_DELAY_TIME * 1000
    /\ a[4] > 0 /\ a[4] < 1000
    /\ a[5] > 0 /\ a[5] < 990

OverdriveInitInRange(a) == a[3] > 0 /\ a[3] <= 400

FuzzInitInRange(a) == a[3] > 0 /\ a[3] <= 18000 /\ a[4] > 0 /\ a[4] < 1000

TremoloInitInRange(a) == a[3] > 0 /\ a[3] < 1000 /\ a[4] >= 0 /\ a[4] <= 1000

RingModInitInRange(a) == a[3] > 0 /\ a[3] <= 1000 /\ a[4] > 0 /\ a[4] < 1000

\* a call with a NULL buffer returns 255 and one with a parameter out of range
\* returns 254, and neither writes a handle
RejectsInvalid(name, inRange) ==
    Called(name) =>
        IF fx_call'.args[1] = "NULL" \/ fx_call'.args[2] = "NULL"
        THEN fx_call'.ret = 255 /\ UNCHANGED handle_vars
        ELSE IF ~inRange
             THEN fx_call'.ret = 254 /\ UNCHANGED handle_vars
             ELSE TRUE

\* C15: a call of delay_init, overdrive_init, fuzz_init, tremolo_init or
\* ring_mod_init with a NULL source or destination buffer returns 255, one with a
\* parameter outside its documented range returns 254, and in both cases every
\* field of every effect handle stays as it was
C15_InitRejectsInvalid ==
    [][/\ RejectsInvalid("delay_init", DelayInitInRange(fx_call'.args))
       /\ RejectsInvalid("overdrive_init", OverdriveInitInRange(fx_call'.args))
       /\ RejectsInvalid("fuzz_init", FuzzInitInRange(fx_call'.args))
       /\ RejectsInvalid("tremolo_init", TremoloInitInRange(fx_call'.args))
       /\ RejectsInvalid("ring_mod_init", RingModInitInRange(fx_call'.args))]_vars

\* the part of C15 that holds: overdrive_init and ring_mod_init reject every
\* invalid call, and a call of any init function that returns an error code has
\* written no handle
C15_ErrorsLeaveHandle ==
    [][/\ RejectsInvalid("overdrive_init", OverdriveInitInRange(fx_call'.args))
       /\ RejectsInvalid("ring_mod_init", RingModInitInRange(fx_call'.args))
       /\ \A name \in {"delay_init", "overdrive_init", "fuzz_init", "tremolo_init",
                       "ring_mod_init"} :
              (Called(name) /\ fx_call'.ret \in {253, 254, 255}) => UNCHANGED handle_vars
       /\ \A name \in {"delay_init", "overdrive_init", "fuzz_init", "tremolo_init",
                       "ring_mod_init"} :
              Called(name) =>
                  (fx_call'.ret = 255 <=>
                       (fx_call'.args[1] = "NULL" \/ fx_call'.args[2] = "NULL"))]_vars

(***************************************************************************)
(* Properties of the delay effect                                          *)
(***************************************************************************)
\* delay_init has succeeded with a positive delay time that the handle still
\* holds, and no call of delay_init or run_delay is in progress
DelayReady ==
    /\ fx_pc = "idle"
    /\ delay_handle.delay_rb = "_delay_rb"
    /\ delay_handle.delay_ms > 0
    /\ DelayInSamples(delay_handle.delay_ms) = {fx_n}
    /\ fx_n >= 1

\* the number of elements in the ring buffer that delay_init has registered
DelayLineCount == SizeToInt(SizeSub(_rb[rbd].head, _rb[rbd].tail))

\* C17: after a successful delay_init with delay time D, the sample run_delay
\* reads from the delay line is the sample it wrote D * (Fs / 1000) samples
\* earlier (an impulse fed in reappears that many samples later in the wet term)
\* and is zero for the first D * (Fs / 1000) samples
C17_DelayRoundTrip ==
    DelayReady =>
        \A j \in 1..Len(delay_log) :
            delay_log[j].delayed =
                IF j > fx_n THEN delay_log[j - fx_n].current ELSE 0

\* C18: after a successful delay_init with delay time D and after every
\* run_delay call the delay line holds exactly D * (Fs / 1000) elements, and no
\* ring_buffer_put or ring_buffer_get of delay_init or run_delay has failed
C18_DelayLineOccupancy ==
    DelayReady =>
        /\ ~delay_rb_failed
        /\ Registered(rbd)
        /\ DelayLineCount = fx_n

(***************************************************************************)
(* Properties of the menu                                                  *)
(***************************************************************************)
\* the step is a call of display_menu with the button flag set and the menu at
\* the given depth
PressAt(depth) ==
    /\ pc = "display_menu"
    /\ pc' = "switch"
    /\ menu_btn # 0
    /\ menu.menu_depth = depth

\* C19: a button press with the menu at depth 0 sets sub_menu_selected to the
\* item highlighted when the press is handled and the depth to 1, and changes
\* neither the active mode nor any field of an effect handle
C19_TopLevelPressSelects ==
    [][PressAt(0) => /\ menu'.sub_menu_selected = menu.item_selected
                     /\ menu'.menu_depth = 1
                     /\ mode' = mode
                     /\ handle_vars' = handle_vars]_vars

\* C19 witness: the press at depth 0 has selected the second category, the one
\* the encoder had highlighted, and the mode is still FXNONE
C19_Witness ==
    /\ pc = "switch"
    /\ menu.menu_depth = 1
    /\ menu.sub_menu_selected = 1
    /\ menu.item_selected = 1
    /\ mode = FXNONE

\* the index of "BACK" in the item list menus[sub] of a category
BackItem(sub) ==
    CASE sub = 1 -> 1
      [] sub = 2 -> 4
      [] sub = 3 -> 2
      [] sub = 4 -> 3
      [] sub = 5 -> 3
      [] sub = 6 -> 4

\* C20: a button press with the menu at depth 1 and "BACK", the last entry of the
\* selected category's list, highlighted returns the menu to depth 0 and sets the
\* item selection and the encoder counter to 0 (the encoder at rest in that call)
C20_BackReturnsToTop ==
    [][(/\ PressAt(1)
        /\ menu.sub_menu_selected \in 1..(SUBMENU_COUNT - 1)
        /\ menu.item_selected = BackItem(menu.sub_menu_selected)
        /\ TIM2_CNT = menu.past_cnt)
           => /\ menu'.menu_depth = 0
              /\ menu'.item_selected = 0
              /\ TIM2_CNT' = 0]_vars

\* the fx_designator of the category at an index of the top-level list
\* {"Pass-through", "Delay", "Overdrive", "Fuzz", "Tremolo", "Ring Modulator"}
CategoryDesignator(i) ==
    CASE i = 0 -> FXNONE
      [] i = 1 -> FXDELAY
      [] i = 2 -> FXOVERDRIVE
      [] i = 3 -> FXFUZZ
      [] i = 4 -> FXTREMOLO
      [] i = 5 -> FXRINGMOD

\* the entries of the top-level list that name a category
Categories == 0..5

\* the encoder is where the previous call of display_menu left it
EncoderAtRest == TIM2_CNT = menu.past_cnt

\* C21: a button press with the menu at depth 1 and item 0 ("Start") highlighted
\* sets the active mode to the fx_designator of the category entered from the
\* top level, keeps the depth and the selected category, keeps the selected item
\* when the encoder is at rest, and changes no effect handle
C21_StartCommitsMode ==
    [][(PressAt(1) /\ menu.item_selected = 0 /\ menu.sub_menu_selected \in Categories)
           => /\ mode' = CategoryDesignator(menu.sub_menu_selected)
              /\ menu'.menu_depth = 1
              /\ menu'.sub_menu_selected = menu.sub_menu_selected
              /\ (EncoderAtRest => menu'.item_selected = 0)
              /\ handle_vars' = handle_vars]_vars

\* C21 witness: "Start" of the third category has been confirmed and the menu is
\* still on that item at depth 1
C21_Witness ==
    /\ pc = "switch"
    /\ mode = FXOVERDRIVE
    /\ menu.menu_depth = 1
    /\ menu.sub_menu_selected = 2
    /\ menu.item_selected = 0

\* the item is a parameter entry of the list menus[sub]: after "Start", before "BACK"
ParameterItem(sub, item) ==
    /\ sub \in 1..(SUBMENU_COUNT - 1)
    /\ item \in 1..(BackItem(sub) - 1)

\* C22: a button press with the menu at depth 1 and a parameter entry
\* highlighted moves the menu to depth 2, sets the encoder counter to 50 and the
\* value-display flag to 1, and changes neither the active mode nor any field of
\* an effect handle
C22_ParameterPressEntersValueEdit ==
    [][(PressAt(1) /\ ParameterItem(menu.sub_menu_selected, menu.item_selected))
           => /\ menu'.menu_depth = 2
              /\ TIM2_CNT' = 50
              /\ menu'.show_values = 1
              /\ menu'.sub_menu_selected = menu.sub_menu_selected
              /\ mode' = mode
              /\ handle_vars' = handle_vars]_vars

\* C22 witness: the first parameter of the list menus[2] has been entered
C22_Witness ==
    /\ pc = "switch"
    /\ menu.menu_depth = 2
    /\ menu.show_values = 1
    /\ menu.sub_menu_selected = 2
    /\ menu.item_selected = 1
    /\ TIM2_CNT = 50

\* C23: a button press with the menu at depth 2 issues the update call of
\* confirm_value for the selected category and parameter with the encoder
\* reading, sets the value-display flag to 0 and returns the menu to depth 1
C23_ConfirmPopsToSubItem ==
    [][PressAt(2)
           => /\ fx_update' = confirm_value([menu EXCEPT !.cnt = TIM2_CNT], fx_update)
              /\ menu'.show_values = 0
              /\ menu'.menu_depth = 1]_vars

\* the part of C23 that holds: the update call is issued and the value display
\* is switched off, while the depth stays 2
C23_ConfirmStaysInValueEdit ==
    [][PressAt(2)
           => /\ fx_update' = confirm_value([menu EXCEPT !.cnt = TIM2_CNT], fx_update)
              /\ menu'.show_values = 0
              /\ menu'.menu_depth = 2]_vars

\* C24: the button flag is one-shot: the call of display_menu that handles a
\* press leaves the flag btn_pressed of main.c cleared, so that the following
\* iterations of the control loop see no press until a new edge sets it
C24_PressConsumedOnce ==
    [][(pc = "display_menu" /\ pc' = "switch" /\ menu_btn # 0)
           => btn_pressed' = 0]_vars

\* C25: from the entry of the control loop on, the active mode changes only in
\* the call of display_menu that handles a press at depth 1 on item 0 ("Start"),
\* which stores the selected category; every other step of the menu, of the
\* control loop, of the interrupts and of the encoder leaves it as it is; a pass
\* enters run_fx once, after rx_samples, dispatches on the mode as it is then,
\* and leaves it for tx_samples
C25_ModeWrittenOnlyByStart ==
    [][/\ (mode' # mode)
              => (PressAt(1) /\ menu.item_selected = 0 /\ mode' = menu.sub_menu_selected)
       /\ (pc' = "run_fx" /\ pc # "run_fx") => pc = "rx_samples"
       /\ (pc = "run_fx" /\ pc' # "run_fx")
              => (pc' = "tx_samples" /\ fx_ran' = RunFunctions(mode) /\ mode' = mode)
       /\ (fx_ran' # fx_ran) => pc = "run_fx"]_vars

\* C25 witness: "Start" of the delay category has been confirmed and a pass has
\* dispatched on that mode
C25_Witness ==
    /\ pc = "tx_samples"
    /\ mode = FXDELAY
    /\ fx_ran = <<"run_delay">>
    /\ menu.menu_depth = 1
    /\ menu.sub_menu_selected = 1

\* the number of entries of the list menus[sub]
ItemCount(sub) ==
    CASE sub = 0 -> 6
      [] sub = 1 -> 2
      [] sub = 2 -> 5
      [] sub = 3 -> 3
      [] sub = 4 -> 4
      [] sub = 5 -> 4
      [] sub = 6 -> 5

\* the step is a call of display_menu without a press that sees the encoder moved
RotationSeen ==
    /\ pc = "display_menu"
    /\ pc' = "switch"
    /\ menu_btn = 0
    /\ TIM2_CNT # menu.past_cnt

\* the encoder has moved up since the previous call: the shorter way round the
\* counter, which wraps at its period
MovedUp == (TIM2_CNT - menu.past_cnt) % (TIM2_PERIOD + 1) <= (TIM2_PERIOD + 1) \div 2

\* C26: with the value display off, a call of display_menu that sees the encoder
\* moved steps item_selected by one in the direction of the rotation, cyclically
\* modulo the number of entries of the list menus[sub_menu_selected], so that
\* item_selected is the index of an entry of that list; with the value display
\* on, item_selected stays as it is
C26_RotationCyclesItems ==
    [][RotationSeen =>
           LET n == ItemCount(menu.sub_menu_selected)
           IN  IF menu.show_values = 0
               THEN /\ menu'.item_selected =
                           (menu.item_selected + (IF MovedUp THEN 1 ELSE -1)) % n
                    /\ menu'.item_selected < n
               ELSE menu'.item_selected = menu.item_selected]_vars

\* the part of C26 that holds: with the value display on the item stays, and
\* with it off the item stays below MAX_ITEM_COUNT
C26_RotationModuloItemCount ==
    [][RotationSeen =>
           IF menu.show_values = 0
           THEN menu'.item_selected < MAX_ITEM_COUNT
           ELSE menu'.item_selected = menu.item_selected]_vars

\* the selected item can leave the entries of its list
C26_ItemWithinList == menu.item_selected < ItemCount(menu.sub_menu_selected)

(***************************************************************************)
(* Properties of the fuzz effect                                           *)
(***************************************************************************)
\* C27: run_fuzz never divides by a zero running maximum: whenever it has run,
\* on any input block, max_z was positive when the second loop divided by it
C27_FuzzDivisorNonZero == (fx_call.name = "run_fuzz") => (max_z_sign = 1)

\* the part of C27 that holds: the divisor is positive when the block has a
\* negative sample and the gain is not 0
C27_FuzzDivisorOfNegativeBlock ==
    (fx_call.name = "run_fuzz" /\ fuzz_handle.gain > 0 /\ \E i \in DOMAIN left_in : left_in[i] < 0)
        => (max_z_sign = 1)

(***************************************************************************)
(* C28: the halves of the transport buffers a pass works on                *)
(***************************************************************************)
\* the first slot of the half of rx_buffer and tx_buffer a notification names
HalfOffset(cs) == IF cs = HALFCPLT THEN 0 ELSE SAMPLES

\* the slots of that half the copy loops visit: one channel, every other slot
Extracted(cs) ==
    {j \in 0..(DMA_BUFFER_SIZE - 1) :
        /\ j >= HalfOffset(cs)
        /\ j < HalfOffset(cs) + SAMPLES
        /\ (j - HalfOffset(cs)) % 2 = 0}

\* the codec delivers right-aligned 24-bit samples
Samples24 == \A j \in DOMAIN rx_buffer : rx_buffer[j] < Pow2(24)

\* C28: half mapping. A half-complete notification is processed by reading every
\* other slot of the first half of rx_buffer into the working block and writing
\* the result block to the same slots of the first half of tx_buffer, a complete
\* notification uses the second halves, and no other slot of tx_buffer is
\* written; in pass-through mode, for 24-bit samples, every written slot j of
\* tx_buffer holds the value of slot j of rx_buffer.
C28_HalfMapping ==
    [][/\ (pc = "rx_samples" /\ pc' = "run_fx") =>
            \A j \in Extracted(callback_state) :
                left_in'[(j - HalfOffset(callback_state)) \div 2] =
                    U32ToFloat(rx_buffer[j])
       /\ (pc = "tx_samples" /\ pc' = "reset") =>
            /\ \A j \in Extracted(callback_state) :
                    tx_buffer'[j] =
                        FloatToU32(left_out[(j - HalfOffset(callback_state)) \div 2])
            /\ \A j \in DOMAIN tx_buffer \ Extracted(callback_state) :
                    tx_buffer'[j] = tx_buffer[j]
            /\ (mode = FXNONE /\ Samples24) =>
                    \A j \in Extracted(callback_state) :
                        tx_buffer'[j] = rx_buffer[j]]_vars

\* a pass over the second half in pass-through mode has copied the largest
\* 24-bit samples and has left the first half and the other channel alone
C28_Witness ==
    /\ pc = "reset"
    /\ callback_state = CPLT
    /\ mode = FXNONE
    /\ rx_buffer[SAMPLES] = Pow2(24) - 1 - SAMPLES
    /\ \A j \in Extracted(CPLT) : tx_buffer[j] = rx_buffer[j]
    /\ \A j \in DOMAIN tx_buffer \ Extracted(CPLT) : tx_buffer[j] = 0

(***************************************************************************)
(* C29: the counters of the ring buffer across the overflow of size_t      *)
(***************************************************************************)
\* the element held at position k of the buffer, counted from the tail
HeldElement(rb, k) ==
    MemRead(storage, SlotOffset(rb, SizeAdd(rb.tail, k - 1)), rb.element_size)

\* head has overflowed the counter width and tail has not yet
HeadOverflowed(rb) == rb.head < rb.tail

\* C29: counter overflow. head and tail are only ever incremented in size_t
\* arithmetic (a successful put adds 1 to head, a successful get adds 1 to tail,
\* both modulo 2^SizeBits and not modulo the capacity), and for a registered
\* buffer of power-of-two capacity the buffer behaves as with unbounded
\* counters, before and after head and tail overflow: the full test holds
\* exactly when max_elements elements are held, the empty test exactly when none
\* is, the elements held lie in put order from the tail on, a put succeeds
\* exactly when the buffer is not at capacity and a get exactly when an element
\* is held, returning the oldest one.
C29_CounterOverflow ==
    /\ [](\A d \in 0..(RING_BUFFER_MAX - 1) :
            (Registered(d) /\ IsPowerOfTwo(_rb[d].max_elements)) =>
                /\ _ring_buffer_full(_rb[d]) <=> Len(fifo) = _rb[d].max_elements
                /\ _ring_buffer_empty(_rb[d]) <=> Len(fifo) = 0
                /\ \A k \in 1..Len(fifo) : HeldElement(_rb[d], k) = fifo[k])
    /\ [][\A d \in 0..(RING_BUFFER_MAX - 1) :
            (Registered(d) /\ IsPowerOfTwo(_rb[d].max_elements)) =>
                /\ (rb_call'.name = "put" /\ rb_call'.rbd = d) =>
                        /\ rb_call'.ret = SUCCESS <=> Len(fifo) < _rb[d].max_elements
                        /\ rb_call'.ret = SUCCESS =>
                                /\ _rb'[d].head = (_rb[d].head + 1) % SizeMod
                                /\ _rb'[d].tail = _rb[d].tail
                                /\ Len(fifo') = Len(fifo) + 1
                /\ (rb_call'.name = "get" /\ rb_call'.rbd = d) =>
                        /\ rb_call'.ret = SUCCESS <=> Len(fifo) > 0
                        /\ rb_call'.ret = SUCCESS =>
                                /\ rb_call'.out = Head(fifo)
                                /\ _rb'[d].tail = (_rb[d].tail + 1) % SizeMod
                                /\ _rb'[d].head = _rb[d].head
                                /\ fifo' = Tail(fifo)
                /\ (rb_call'.name \in {"count", "init"}) => _rb'[d] = _rb[d]
          ]_vars

\* a get has returned the oldest element of a buffer of capacity 4 whose head
\* has overflowed to 1 while its tail has not, with two elements still held
C29_Witness ==
    /\ Registered(0)
    /\ _rb[0].max_elements = 4
    /\ HeadOverflowed(_rb[0])
    /\ _rb[0].head = 1
    /\ _rb[0].tail = SizeMod - 1
    /\ Len(fifo) = 2
    /\ fifo[1] # fifo[2]
    /\ rb_call.name = "get"
    /\ rb_call.ret = SUCCESS

(***************************************************************************)
(* C30: the range test of ring_mod_init                                    *)
(***************************************************************************)
\* the arguments of a ring_mod_init call are the ones the claim calls valid:
\* buffers not NULL, rate in (0, 1], blend in [0, 0.99], a waveform
RingModInitValid(a) ==
    /\ a[1] # "NULL"
    /\ a[2] # "NULL"
    /\ a[3] > 0 /\ a[3] <= 1000
    /\ a[4] >= 0 /\ a[4] <= 990
    /\ a[5] \in {SINE, TRIANGLE, SQUARE}

\* C30: a call of ring_mod_init with buffers that are not NULL, a rate in (0, 1],
\* a blend in [0, 0.99] and a waveform returns 0 and writes src, dst, rate,
\* blend, type and time = 0 to the handle; a call returns 254 only when rate or
\* blend is out of range.
C30_RingModInitAccepts ==
    [][Called("ring_mod_init") =>
        /\ RingModInitValid(fx_call'.args) =>
                /\ fx_call'.ret = 0
                /\ ring_mod_handle' = [ring_mod_handle EXCEPT
                                           !.src = fx_call'.args[1],
                                           !.dst = fx_call'.args[2],
                                           !.rate = fx_call'.args[3],
                                           !.blend = fx_call'.args[4],
                                           !.type = fx_call'.args[5],
                                           !.time = 0]
        /\ fx_call'.ret = 254 =>
                ~(/\ fx_call'.args[3] > 0 /\ fx_call'.args[3] <= 1000
                  /\ fx_call'.args[4] >= 0 /\ fx_call'.args[4] <= 990)]_vars

\* what ring_mod_init does: every call with buffers that are not NULL returns
\* 254, whatever the rate and the blend, and the handle is never written
C30_RingModInitAlwaysRejects ==
    [][Called("ring_mod_init") =>
        /\ (fx_call'.args[1] # "NULL" /\ fx_call'.args[2] # "NULL") => fx_call'.ret = 254
        /\ fx_call'.ret # 0
        /\ UNCHANGED handle_vars]_vars

(***************************************************************************)
(* C31: the fields fuzz_init writes                                        *)
(***************************************************************************)
\* C31: after a call of fuzz_init that returns 0 the handle holds the gain
\* argument in gain and the mix argument in mix, with gain at most 18 and mix
\* below 1.
C31_FuzzInitStoresArguments ==
    [][(Called("fuzz_init") /\ fx_call'.ret = 0) =>
        /\ fuzz_handle'.gain = fx_call'.args[3]
        /\ fuzz_handle'.mix = fx_call'.args[4]
        /\ fuzz_handle'.gain <= 18000
        /\ fuzz_handle'.mix < 1000]_vars

\* what fuzz_init does: after a call that returns 0 both gain and mix hold the
\* gain argument, and the mix argument is stored nowhere
C31_FuzzInitStoresGainTwice ==
    [][(Called("fuzz_init") /\ fx_call'.ret = 0) =>
        /\ fuzz_handle'.gain = fx_call'.args[3]
        /\ fuzz_handle'.mix = fx_call'.args[3]
        /\ fuzz_handle'.src = fx_call'.args[1]
        /\ fuzz_handle'.dst = fx_call'.args[2]]_vars

(***************************************************************************)
(* C32: the values the menu hands to the update functions                  *)
(***************************************************************************)
\* the documented range of the parameter an update call addresses holds the
\* value, in thousandths; calls that address no parameter are not restricted
NativeRange(u) ==
    CASE u.fn = "delay_update" /\ u.pm = DELAY -> u.milli > 0 /\ u.milli <= MAX_DELAY_TIME * 1000
      [] u.fn = "delay_update" /\ u.pm \in {FEEDBACK, BLEND} -> u.milli > 0 /\ u.milli < 1000
      [] u.fn = "overdrive_update" -> u.milli > 0 /\ u.milli <= 400
      [] u.fn = "fuzz_update" /\ u.pm = GAIN -> u.milli > 0 /\ u.milli <= 18000
      [] u.fn = "fuzz_update" /\ u.pm = MIX -> u.milli >= 0 /\ u.milli < 1000
      [] u.fn = "tremolo_update" /\ u.pm = RATE -> u.milli > 0 /\ u.milli < 1000
      [] u.fn = "tremolo_update" /\ u.pm = DEPTH -> u.milli >= 0 /\ u.milli <= 1000
      [] u.fn = "ring_mod_update" /\ u.pm = RATE -> u.milli > 0 /\ u.milli <= 1000
      [] u.fn = "ring_mod_update" /\ u.pm = DEPTH -> u.milli >= 0 /\ u.milli <= 990
      [] OTHER -> TRUE

\* the limits of the same ranges, both taken as included
ClosedRange(u) ==
    CASE u.fn = "delay_update" /\ u.pm = DELAY -> u.milli >= 0 /\ u.milli <= MAX_DELAY_TIME * 1000
      [] u.fn = "overdrive_update" -> u.milli >= 0 /\ u.milli <= 400
      [] u.fn = "fuzz_update" /\ u.pm = GAIN -> u.milli >= 0 /\ u.milli <= 18000
      [] u.fn \in {"delay_update", "fuzz_update", "tremolo_update", "ring_mod_update"}
            /\ u.pm \in {0, 1, 2} /\ u.type = NO_CHANGE -> u.milli >= 0 /\ u.milli <= 1000
      [] OTHER -> TRUE

\* the parameters the delay and the tremolo handle store, as update calls
StoredParameters ==
    {Update("delay_update", DELAY, NO_CHANGE, delay_handle.delay_ms),
     Update("delay_update", FEEDBACK, NO_CHANGE, delay_handle.feedback),
     Update("delay_update", BLEND, NO_CHANGE, delay_handle.blend),
     Update("tremolo_update", RATE, NO_CHANGE, tremolo_handle.rate),
     Update("tremolo_update", DEPTH, NO_CHANGE, tremolo_handle.depth)}

\* the call confirm_value issues when the press is handled now
ConfirmCall == confirm_value([menu EXCEPT !.cnt = TIM2_CNT], NoUpdate)

\* C32: for every encoder reading, the value confirm_value passes to an update
\* function lies inside the documented range of the parameter it addresses, and
\* the parameters stored by the handles initialised at start-up (delay time,
\* feedback, blend, tremolo rate and depth) are inside their documented ranges
\* after every sequence of menu operations.
C32_ConfirmedValuesInRange ==
    /\ [](\A u \in StoredParameters : NativeRange(u))
    /\ [][PressAt(2) => NativeRange(ConfirmCall)]_vars

\* what the menu does keep: every value passed and every stored parameter lies
\* between the limits of its range, the limits themselves included
C32_ConfirmedValuesWithinLimits ==
    /\ [](\A u \in StoredParameters : ClosedRange(u))
    /\ [][PressAt(2) => ClosedRange(ConfirmCall)]_vars

(***************************************************************************)
(* C33: what a new delay time leaves alone                                 *)
(***************************************************************************)
\* C33: a call delay_update(DELAY, v) that accepts v writes v to delay_ms and
\* nothing else: the other fields of the delay handle, the other handles, the
\* ring buffer of the delay line (head, tail, count, contents) and the length
\* delay_init filled it to are as before.
C33_DelayTimeUpdateFrame ==
    [][(Called("delay_update") /\ fx_call'.args[1] = DELAY /\ fx_call'.ret = 0) =>
        /\ delay_handle' = [delay_handle EXCEPT !.delay_ms = fx_call'.args[2]]
        /\ UNCHANGED <<overdrive_handle, fuzz_handle, tremolo_handle, ring_mod_handle>>
        /\ UNCHANGED <<_rb, storage, fifo, index, rbd>>
        /\ Registered(rbd) => DelayLineCount' = DelayLineCount
        /\ UNCHANGED <<fx_n, delay_log>>]_vars

\* a delay time other than the one delay_init was given has been accepted after
\* delay_init had succeeded and run_delay had processed a block
C33_Witness ==
    /\ fx_call.name = "delay_update"
    /\ fx_call.args[1] = DELAY
    /\ fx_call.ret = 0
    /\ Registered(rbd)
    /\ delay_handle.delay_rb = "_delay_rb"
    /\ delay_handle.delay_ms = fx_call.args[2]
    /\ fx_n >= 1
    /\ DelayInSamples(delay_handle.delay_ms) # {fx_n}
    /\ Len(delay_log) >= PING_PONG_BUFFER_SIZE

(***************************************************************************)
(* C34: the handles of the effects the scheduler runs                      *)
(***************************************************************************)
\* the handle a run function works on has been set up by its init function:
\* src and dst are the working blocks; pass_through and run_fir_filter take no
\* handle
HandleInitialised(fn) ==
    CASE fn = "run_delay" ->
            /\ delay_handle.src = "left_in"
            /\ delay_handle.dst = "left_out"
            /\ delay_handle.delay_rb = "_delay_rb"
      [] fn = "run_overdrive" ->
            overdrive_handle.src = "left_in" /\ overdrive_handle.dst = "left_out"
      [] fn = "run_fuzz" ->
            fuzz_handle.src = "left_in" /\ fuzz_handle.dst = "left_out"
      [] fn = "run_tremolo" ->
            tremolo_handle.src = "left_in" /\ tremolo_handle.dst = "left_out"
      [] fn = "run_ring_mod" ->
            ring_mod_handle.src = "left_in" /\ ring_mod_handle.dst = "left_out"
      [] OTHER -> TRUE

\* the modes the menu of the program commits: pass-through, the delay, and the
\* designator 6 of the FIR filter
CommittedModes == {FXNONE, FXDELAY, FXFILTER}

C34_OnlyCommittedModes == mode \in CommittedModes

C35_TopLevelReachableAgain == (menu.menu_depth > 0) ~> (menu.menu_depth = 0)

\* what display_menu does: no call, with or without a press and whatever the
\* encoder did, takes the menu to a shallower depth, and the depth stays at
\* most 2; a menu that has left the top level never returns to it
C35_DepthNeverDecreases ==
    [][menu'.menu_depth >= menu.menu_depth /\ menu'.menu_depth <= 2]_vars

(***************************************************************************)
(* C36: what a pass over one notification writes                           *)
(***************************************************************************)
\* the values j takes in for (i = 0, j = offset; j < end; ++i, j = j + 2)
LoopSlots(pp) == {pp * SAMPLES + 2 * i : i \in LoopIndexes}

\* the values i takes in the loop of pass_through
PassThroughIndexes == {i \in 0..DMA_BUFFER_SIZE : i < DMA_BUFFER_SIZE \div 4}

\* the control loop is inside a pass
PassStep == pc \in {"rx_samples", "run_fx", "tx_samples", "reset"}

DelayBufferCall == rb_call.name \in {"put", "get", "clear", "count"}

\* C37: every put, get, clear and count the delay effect issues names the buffer
\* delay_init registered: the designator is below RING_BUFFER_MAX and is the one
\* ring_buffer_init returned, also when delay_init runs a second time.
C37_DelayUsesRegisteredBuffer ==
    DelayBufferCall => (rb_call.rbd < RING_BUFFER_MAX /\ rb_call.rbd = rbd)

\* what the delay effect does: every call names FXDELAY, which is no slot of the
\* registry, while the buffer was registered under another designator
C37_DelayUsesModeDesignator ==
    DelayBufferCall =>
        /\ rb_call.rbd = FXDELAY
        /\ rb_call.rbd >= RING_BUFFER_MAX
        /\ rbd # FXDELAY

\* the part of C37 about ring_buffer_clear alone: no clear is issued with a
\* designator outside the registry (the second delay_init issues one)
C37_NoClearOutsideRegistry ==
    ~(rb_call.name = "clear" /\ rb_call.rbd >= RING_BUFFER_MAX)

(***************************************************************************)
(* C38: the capacity 0                                                     *)
(***************************************************************************)
\* C38: no registered ring buffer has capacity 0, and none is full and empty at
\* the same time.
C38_NoZeroCapacity ==
    \A d \in 0..(RING_BUFFER_MAX - 1) :
        Registered(d) =>
            /\ _rb[d].max_elements # 0
            /\ ~(_ring_buffer_full(_rb[d]) /\ _ring_buffer_empty(_rb[d]))

\* what the code does with a capacity of 0: the buffer is registered, it is full
\* and empty for ever, and every put and get on it fails; a registered buffer is
\* full and empty at once only then
C38_ZeroCapacityIsInert ==
    /\ [](\A d \in 0..(RING_BUFFER_MAX - 1) :
            Registered(d) =>
                ((_ring_buffer_full(_rb[d]) /\ _ring_buffer_empty(_rb[d]))
                    <=> _rb[d].max_elements = 0))
    /\ [][\A d \in 0..(RING_BUFFER_MAX - 1) :
            (Registered(d) /\ _rb[d].max_elements = 0
                /\ rb_call'.name \in {"put", "get"} /\ rb_call'.rbd = d)
            => rb_call'.ret = FAILURE]_vars

(***************************************************************************)
(* C39: the registry of ring buffers                                       *)
(***************************************************************************)
\* C39: at most RING_BUFFER_MAX calls of ring_buffer_init succeed, each taking
\* the next free slot; a call that fails takes no slot and leaves the caller's
\* designator and every registered buffer (head, tail, storage, sizes) as they
\* were; a put or get with a designator of RING_BUFFER_MAX or above fails and
\* leaves every buffer as it was.
C39_RegistryBounded ==
    /\ [](index >= 0 /\ index <= RING_BUFFER_MAX)
    /\ [][/\ (rb_call'.name = "init" /\ rb_call'.ret = SUCCESS) =>
               /\ index < RING_BUFFER_MAX
               /\ index' = index + 1
               /\ rbd' = index
               /\ \A d \in 0..(RING_BUFFER_MAX - 1) : (d # index => _rb'[d] = _rb[d])
          /\ (rb_call'.name = "init" /\ rb_call'.ret # SUCCESS) =>
               UNCHANGED <<index, rbd, _rb, storage, fifo>>
          /\ (rb_call'.name = "init" /\ index >= RING_BUFFER_MAX) =>
               rb_call'.ret = FAILURE
          /\ (rb_call'.name \in {"put", "get"} /\ rb_call'.rbd >= RING_BUFFER_MAX) =>
               /\ rb_call'.ret = FAILURE
               /\ UNCHANGED <<index, rbd, _rb, storage, fifo>>
         ]_vars

\* a call of ring_buffer_init has failed for want of a free slot while the one
\* registered buffer holds elements and its counters have moved on
C39_Witness ==
    /\ rb_call.name = "init"
    /\ rb_call.ret = FAILURE
    /\ index = RING_BUFFER_MAX
    /\ rbd = 0
    /\ _rb[0].max_elements = 4
    /\ _rb[0].tail > 0
    /\ Len(fifo) = 2


(***************************************************************************)
(* The encoder counter wrapping between two calls of display_menu          *)
(***************************************************************************)
\* between the previous call and this one the counter passed its period: it
\* moved up and reads lower than before, or moved down and reads higher
CounterWrapped ==
    \/ MovedUp /\ TIM2_CNT < menu.past_cnt
    \/ ~MovedUp /\ TIM2_CNT > menu.past_cnt

\* the items the rotation block can store for a movement of the counter in
\* direction dir (1 up, -1 down) that does not pass the period
StepOutcomes(dir) ==
    RotateOutcomes([menu EXCEPT !.past_cnt = 1, !.cnt = 1 + dir])

\* C40: when the counter has wrapped at its period between two calls of
\* display_menu (100 -> 0 on a step up, 0 -> 100 on a step down), the item
\* moves in the direction the encoder was turned, as it does for a step that
\* does not wrap
C40_WrapKeepsDirection ==
    [][(RotationSeen /\ menu.show_values = 0 /\ CounterWrapped) =>
           menu'.item_selected \in StepOutcomes(IF MovedUp THEN 1 ELSE -1)]_vars

\* what the code does instead: change = cnt - past_cnt takes the sign of the
\* difference of the two readings, so a step that wraps is treated as a step
\* the other way, and a step that does not wrap as a step its own way
C40_WrapReversesDirection ==
    [][(RotationSeen /\ menu.show_values = 0) =>
           menu'.item_selected \in
               StepOutcomes(IF MovedUp = CounterWrapped THEN -1 ELSE 1)]_vars
====
